---------------------------- MODULE Spec2Model ----------------------------
(***************************************************************************)
(* A model of the FMU build pipeline of build_models:                      *)
(*   build/build_fmu.py   load_config, validate_files,                     *)
(*                        generate_build_script, main                      *)
(*   twinctl.py           stage_model, cmd_build, _rename_output_fmu       *)
(*                                                                         *)
(* A YAML mapping is a function whose DOMAIN is the set of keys present.   *)
(* A text is a sequence of lines; a line is a sequence of string pieces    *)
(* (the literal parts of the f-string and the values substituted).         *)
(***************************************************************************)
EXTENDS Integers, Sequences, FiniteSets, TLC

(***************************************************************************)
(* Bounds of the model.                                                    *)
(***************************************************************************)
MaxDeps == 2
MaxLibs == 2

(***************************************************************************)
(* Python dict helpers.                                                    *)
(***************************************************************************)
Has(d, k) == k \in DOMAIN d
Get(d, k, default) == IF k \in DOMAIN d THEN d[k] ELSE default
EmptyDict == [k \in {} |-> 0]
Opt(present, k, v) == IF present THEN k :> v ELSE EmptyDict

SeqsUpTo(S, n) == UNION {[1..k -> S] : k \in 0..n}

RECURSIVE Concat(_)
Concat(ss) == IF ss = <<>> THEN <<>> ELSE Head(ss) \o Concat(Tail(ss))

(***************************************************************************)
(* The configurations generate_build_script is applied to: mappings that   *)
(* load_config accepts (the four sections, modelica.model_class and        *)
(* files.main present).  msl_version is a string, kept as its characters   *)
(* because the code tests its prefix.                                      *)
(***************************************************************************)
ModelClasses == {"Plant.Boiler"}
MslVersions == {<<"d","e","f","a","u","l","t">>, <<"3",".","2",".","3">>, <<"4",".","0",".","0">>}
DepNames == {"model/A.mo", "model/B.mo"}
LibEntries ==
    { [name |-> "LibA", path |-> "LibA/package.mo"],
      [name |-> "LibB", path |-> "LibB/package.mo"],
      [name |-> "LibC"] }
FmuKeys == {"version", "type", "output_name", "platform"}
FmuValue(k) ==
    CASE k = "version" -> "1.0"
      [] k = "type" -> "me"
      [] k = "output_name" -> "Boiler"
      [] k = "platform" -> "dynamic"
FmuSections == { [k \in ks |-> FmuValue(k)] : ks \in SUBSET FmuKeys }
ModelicaSections ==
    { ("model_class" :> mc) @@ Opt(hasMsl, "msl_version", v) :
        mc \in ModelClasses, hasMsl \in BOOLEAN, v \in MslVersions }
FilesSections ==
    { ("main" :> "model/Main.mo") @@ Opt(hasDeps, "dependencies", ds) :
        hasDeps \in BOOLEAN, ds \in SeqsUpTo(DepNames, MaxDeps) }
LibLists == SeqsUpTo(LibEntries, MaxLibs)
GenConfigs ==
    { ("project" :> [name |-> "P"]) @@ ("modelica" :> m) @@ ("files" :> f)
        @@ ("fmu" :> u) @@ Opt(hasLibs, "external_libraries", ls) :
        m \in ModelicaSections, f \in FilesSections, u \in FmuSections,
        hasLibs \in BOOLEAN, ls \in LibLists }

VARIABLES
    config,      \* the argument of the next generate_build_script call
    buildDir,    \* build/: file name -> text
    envState,    \* file system and environment outside build/generated_build.mos
    genResult,   \* outcome of the last generate_build_script call
    genLog,      \* every (configuration, script text) a call has written
    active,      \* input/_active: [exists, tree], tree: path -> content
    inputTestData, \* input/test_data: file name -> content
    output,      \* output/: file name -> the build that produced the package
    bpc,         \* build_fmu.py main: the step it is at
    exitStatus,  \* exit status of the build_fmu.py process (-1 while running)
    report,      \* what the build_fmu.py process has printed, in order
    ran,         \* the steps of main executed so far, each with its outcome
    backend,     \* what happened inside the last docker build
    models,      \* input/models: project name -> [exists, tree]
    cmd,         \* the arguments of the twinctl build command
    tpc,         \* twinctl.py: the step it is at
    current,     \* the model being staged and built
    queue,       \* build --all: the models still to build
    results,     \* build --all: model -> "PASS" / "FAIL"
    texit,       \* exit status of twinctl (-1 while running)
    rmOutcomes,  \* retry_rmtree: the outcome of each attempt of this call
    delays,      \* retry_rmtree: the delays slept in this call
    stageStatus, \* how the last stage_model call ended
    staged,      \* every successful stage_model: the model and the workspace after
    wsOps,       \* what this twinctl run has done to input/_active
    runs,        \* how many times twinctl has been run
    before,      \* input/_active when the current stage_model call began
    splitResult, \* how the last split_validation_csv call ended
    eConfig,     \* validation engine: the configuration it loaded
    eData,       \* validation engine: the test data files, each a list of rows
    eModel,      \* validation engine: the variables of the FMU and what it returns
    epc,         \* validation engine: the step it is at
    eRow,        \* validation engine: the index of the row being evaluated
    eTime,       \* validation engine: current_time of the stepping loop
    fmuLog,      \* validation engine: the calls made on FMU instances, in order
    checks,      \* validation engine: the PASS / FAIL lines printed, in order
    failures,    \* validation engine: the failures recorded
    eReport,     \* validation engine: the summary lines printed
    eReturn,     \* validation engine: what validate_fmu returned
    eExit        \* validation engine: exit status of the process (-1 while running)

genVars == <<config, buildDir, envState, genResult, genLog>>
mainVars == <<active, inputTestData, output, bpc, exitStatus, report, ran, backend>>
ctlVars == <<models, cmd, tpc, current, queue, results, texit, rmOutcomes, delays,
             stageStatus, staged, wsOps, runs, before>>
splitVars == <<splitResult>>
engineVars == <<eConfig, eData, eModel, epc, eRow, eTime, fmuLog, checks, failures,
                eReport, eReturn, eExit>>
vars == <<genVars, mainVars, ctlVars, splitVars, engineVars>>

(***************************************************************************)
(* generate_build_script: the text it builds (build_fmu.py 97-155).        *)
(***************************************************************************)
GetErrorString == <<"getErrorString();">>
Blank == <<>>

\* str.startswith("4.")
StartsWith4Dot(v) == Len(v) >= 2 /\ v[1] = "4" /\ v[2] = "."

MslLines(cfg) ==
    LET msl_version == Get(cfg["modelica"], "msl_version", <<"d","e","f","a","u","l","t">>)
    IN IF msl_version # <<"d","e","f","a","u","l","t">>
       THEN << <<"// Load Modelica Standard Library v">> \o msl_version,
               <<"installPackage(Modelica, \"">> \o msl_version \o <<"\");">>,
               GetErrorString, Blank >>
            \o (IF StartsWith4Dot(msl_version)
                THEN << <<"installPackage(Complex, \"">> \o msl_version \o <<"\");">>,
                        GetErrorString, Blank >>
                ELSE <<>>)
       ELSE <<>>

\* lib['path'] and lib['name'] are subscripts: a missing key raises KeyError
LibRaises(lib) == ~Has(lib, "path") \/ ~Has(lib, "name")

LibLines(lib) ==
    << <<"// Load external library: ", lib["name"]>>,
       <<"loadFile(\"", "input/src/libraries/", lib["path"], "\");">>,
       GetErrorString, Blank >>

MainLines(cfg) ==
    << <<"// Load main model file">>,
       <<"loadFile(\"", "input/src/", cfg["files"]["main"], "\");">>,
       GetErrorString, Blank >>

DepLines(dep) ==
    << <<"loadFile(\"", "input/src/", dep, "\");">>, GetErrorString >>

\* mutant: a wrong fall-back for an absent fmu key
BuildLinesWrongDefault(cfg) ==
    LET fmu_config == cfg["fmu"]
    IN << <<"// Build FMU">>,
          <<"buildModelFMU(">>,
          <<"    ", cfg["modelica"]["model_class"], ",">>,
          <<"    version=\"", Get(fmu_config, "version", "2.0"), "\",">>,
          <<"    fmuType=\"", Get(fmu_config, "type", "me"), "\",">>,
          <<"    fileNamePrefix=\"", Get(fmu_config, "output_name", "DigitalTwin"), "\",">>,
          <<"    platforms={\"", Get(fmu_config, "platform", "static"), "\"}">>,
          <<");">>, Blank,
          <<"// Print any errors">>,
          GetErrorString >>

BuildLines(cfg) ==
    LET fmu_config == cfg["fmu"]
    IN << <<"// Build FMU">>,
          <<"buildModelFMU(">>,
          <<"    ", cfg["modelica"]["model_class"], ",">>,
          <<"    version=\"", Get(fmu_config, "version", "2.0"), "\",">>,
          <<"    fmuType=\"", Get(fmu_config, "type", "cs"), "\",">>,
          <<"    fileNamePrefix=\"", Get(fmu_config, "output_name", "DigitalTwin"), "\",">>,
          <<"    platforms={\"", Get(fmu_config, "platform", "static"), "\"}">>,
          <<");">>, Blank,
          <<"// Print any errors">>,
          GetErrorString >>

ScriptRaises(cfg) ==
    \E i \in 1..Len(Get(cfg, "external_libraries", <<>>)) :
        LibRaises(Get(cfg, "external_libraries", <<>>)[i])

\* mutant: the main file loaded before the external libraries
ScriptTextMainFirst(cfg) ==
    LET dependencies == Get(cfg["files"], "dependencies", <<>>)
        ext_libs == Get(cfg, "external_libraries", <<>>)
    IN << <<"// Auto-generated build script from project.yaml">> >>
       \o MslLines(cfg)
       \o MainLines(cfg)
       \o Concat([i \in 1..Len(ext_libs) |-> LibLines(ext_libs[i])])
       \o Concat([i \in 1..Len(dependencies) |-> DepLines(dependencies[i])])
       \o (IF dependencies # <<>> THEN <<Blank>> ELSE <<>>)
       \o BuildLines(cfg)

ScriptText(cfg) ==
    LET dependencies == Get(cfg["files"], "dependencies", <<>>)
        ext_libs == Get(cfg, "external_libraries", <<>>)
    IN << <<"// Auto-generated build script from project.yaml">> >>
       \o MslLines(cfg)
       \o Concat([i \in 1..Len(ext_libs) |-> LibLines(ext_libs[i])])
       \o MainLines(cfg)
       \o Concat([i \in 1..Len(dependencies) |-> DepLines(dependencies[i])])
       \o (IF dependencies # <<>> THEN <<Blank>> ELSE <<>>)
       \o BuildLines(cfg)

GeneratedScript == "generated_build.mos"

\* mutant: the file opened in append mode
WriteScriptAppend(dir, text) ==
    (GeneratedScript :> (Get(dir, GeneratedScript, <<>>) \o text)) @@ dir

\* open(generated_script, 'w'); f.write(script)
WriteScript(dir, text) == (GeneratedScript :> text) @@ dir

(***************************************************************************)
(* Script generation on its own: any accepted configuration, any number of *)
(* calls, the rest of the file system changing in between.                 *)
(***************************************************************************)
EnvStates == {"env1", "env2"}
\* the script an earlier build left in build/
StaleScript == << <<"// Auto-generated build script from project.yaml">>, <<"// earlier build">> >>

\* the backend before docker build has been called
NotInvoked == [invoked |-> FALSE, compiles |-> FALSE, validation |-> "not run"]

\* build_fmu.py is not running
MainIdle ==
    /\ active = [exists |-> FALSE, tree |-> EmptyDict]
    /\ inputTestData = EmptyDict
    /\ output = EmptyDict
    /\ bpc = "idle"
    /\ exitStatus = -1
    /\ report = <<>>
    /\ ran = <<>>
    /\ backend = NotInvoked

\* no validation engine is running
EngineIdle ==
    /\ eConfig = EmptyDict
    /\ eData = EmptyDict
    /\ eModel = EmptyDict
    /\ epc = "idle"
    /\ eRow = 0
    /\ eTime = 0
    /\ fmuLog = <<>>
    /\ checks = <<>>
    /\ failures = <<>>
    /\ eReport = <<>>
    /\ eReturn = "none"
    /\ eExit = -1

\* twinctl.py is not running
CtlIdle ==
    /\ models = EmptyDict
    /\ cmd = [all |-> FALSE, model |-> ""]
    /\ tpc = "idle"
    /\ current = ""
    /\ queue = <<>>
    /\ results = EmptyDict
    /\ texit = -1
    /\ rmOutcomes = <<>>
    /\ delays = <<>>
    /\ stageStatus = "none"
    /\ staged = <<>>
    /\ wsOps = <<>>
    /\ runs = 0
    /\ before = [exists |-> FALSE, tree |-> EmptyDict]

InitGen ==
    /\ splitResult = "none"
    /\ EngineIdle
    /\ MainIdle
    /\ CtlIdle
    /\ config \in GenConfigs
    /\ buildDir = GeneratedScript :> StaleScript
    /\ envState = "env1"
    /\ genResult = "none"
    /\ genLog = {}

\* one call generate_build_script(config)
GenCall ==
    /\ IF ScriptRaises(config)
       THEN /\ genResult' = "raised"
            /\ UNCHANGED <<buildDir, genLog>>
       ELSE /\ buildDir' = WriteScript(buildDir, ScriptText(config))
            /\ genResult' = "returned"
            /\ genLog' = genLog \cup
                   {[cfg |-> config, env |-> envState,
                     text |-> buildDir'[GeneratedScript]]}
    /\ UNCHANGED <<config, envState>>

GenerateBuildScript ==
    /\ UNCHANGED <<splitVars, engineVars>>
    /\ GenCall
    /\ UNCHANGED <<mainVars, ctlVars>>

\* anything else that happens to the file system or the environment
EnvChange ==
    /\ UNCHANGED <<splitVars, engineVars>>
    /\ envState' \in EnvStates \ {envState}
    /\ UNCHANGED <<config, buildDir, genResult, genLog>>
    /\ UNCHANGED <<mainVars, ctlVars>>

NextGen == GenerateBuildScript \/ EnvChange

SpecGen == InitGen /\ [][NextGen]_vars


(***************************************************************************)
(* The file trees.  A path is a tuple of names; a tree maps the paths that *)
(* exist to their content.  The content of project.yaml is the mapping     *)
(* yaml.safe_load returns; the content of any other file is a tag naming   *)
(* where it came from.  Directories are paths too.                         *)
(***************************************************************************)
YamlPath == <<"project.yaml">>
SrcDir == <<"src">>
TestDataDir == <<"test_data">>
LibrariesDir == <<"src", "libraries">>
DirTag == "dir"

PathExists(ws, p) == ws.exists /\ p \in DOMAIN ws.tree
IsPrefix(d, p) == Len(d) <= Len(p) /\ SubSeq(p, 1, Len(d)) = d

(***************************************************************************)
(* load_config (build_fmu.py 37-62).  A message is the tuple of the pieces *)
(* of the printed line.                                                    *)
(***************************************************************************)
\* mutant: the fmu section is not among the required ones
RequiredSectionsNoFmu == <<"project", "modelica", "files">>

RequiredSections == <<"project", "modelica", "files", "fmu">>

SectionMissingMsg(field) == <<"Error: '", field, "' section missing in project.yaml">>
FieldRequiredMsg(field) == <<"Error: '", field, "' is required in project.yaml">>
ConfigNotFoundMsg == <<"Error: ", "input/_active/project.yaml", " not found!">>

\* for field in required: if field not in config: ... sys.exit(1)
FirstMissingSection(cfg) ==
    LET missing == {i \in 1..Len(RequiredSections) : ~Has(cfg, RequiredSections[i])}
    IN IF missing = {} THEN 0
       ELSE CHOOSE i \in missing : \A j \in missing : i <= j

\* the outcome of load_config in workspace ws: the configuration returned,
\* or the message printed before sys.exit(1)
LoadConfigOutcome(ws) ==
    IF ~PathExists(ws, YamlPath)
    THEN [returned |-> FALSE, msg |-> ConfigNotFoundMsg]
    ELSE LET cfg == ws.tree[YamlPath]
         IN IF FirstMissingSection(cfg) # 0
            THEN [returned |-> FALSE,
                  msg |-> SectionMissingMsg(RequiredSections[FirstMissingSection(cfg)])]
            ELSE IF ~Has(cfg["modelica"], "model_class")
            THEN [returned |-> FALSE, msg |-> FieldRequiredMsg("modelica.model_class")]
            ELSE IF ~Has(cfg["files"], "main")
            THEN [returned |-> FALSE, msg |-> FieldRequiredMsg("files.main")]
            ELSE [returned |-> TRUE, msg |-> <<>>]

(***************************************************************************)
(* validate_files (build_fmu.py 64-95): the message of the first path      *)
(* found missing, or <<>> when the function reaches "All files validated". *)
(***************************************************************************)
MainNotFoundMsg(p) == <<"Error: Main file not found: ", p>>
DepNotFoundMsg(p) == <<"Error: Dependency file not found: ", p>>
LibNotFoundMsg(p) == <<"Error: External library not found: ", p>>

MainPath(cfg) == SrcDir \o <<cfg["files"]["main"]>>
DepPath(dep) == SrcDir \o <<dep>>
LibPath(lib) == LibrariesDir \o <<lib["path"]>>

FirstIn(S) == CHOOSE i \in S : \A j \in S : i <= j

\* mutant: the dependencies are not checked
ValidateFilesOutcomeNoDeps(cfg, ws) ==
    LET libs == Get(cfg, "external_libraries", <<>>)
        badLibs == {i \in 1..Len(libs) :
                      Has(libs[i], "path") /\ ~PathExists(ws, LibPath(libs[i]))}
    IN IF ~PathExists(ws, MainPath(cfg)) THEN MainNotFoundMsg(MainPath(cfg))
       ELSE IF badLibs # {} THEN LibNotFoundMsg(LibPath(libs[FirstIn(badLibs)]))
       ELSE <<>>

ValidateFilesOutcome(cfg, ws) ==
    LET deps == Get(cfg["files"], "dependencies", <<>>)
        libs == Get(cfg, "external_libraries", <<>>)
        badDeps == {i \in 1..Len(deps) : ~PathExists(ws, DepPath(deps[i]))}
        badLibs == {i \in 1..Len(libs) :
                      Has(libs[i], "path") /\ ~PathExists(ws, LibPath(libs[i]))}
    IN IF ~PathExists(ws, MainPath(cfg)) THEN MainNotFoundMsg(MainPath(cfg))
       ELSE IF badDeps # {} THEN DepNotFoundMsg(DepPath(deps[FirstIn(badDeps)]))
       ELSE IF badLibs # {} THEN LibNotFoundMsg(LibPath(libs[FirstIn(badLibs)]))
       ELSE <<>>

(***************************************************************************)
(* The splitter step of main (build_fmu.py 188-205) and                    *)
(* split_validation_csv (split_validation_csv.py 26-98), as far as the     *)
(* outcome of the step goes.  The splitter reads and writes                *)
(* input/test_data; a file there is "rows" or "empty" (no data row).       *)
(***************************************************************************)
CsvFileName(cfg) == Get(Get(cfg, "validation", EmptyDict), "csv_file", "validation.csv")

\* "skipped": no client CSV staged;  "exit": sys.exit(1) inside the splitter,
\* a SystemExit that except Exception does not catch;  "warned": an
\* exception caught by main;  "split": both files written
SplitOutcome(cfg, ws, itd) ==
    IF ~PathExists(ws, TestDataDir \o <<CsvFileName(cfg)>>) THEN "skipped"
    ELSE IF ~Has(itd, CsvFileName(cfg)) THEN "exit"
    ELSE IF ~Has(cfg, "interface") THEN "warned"
    ELSE IF itd[CsvFileName(cfg)] = "empty" THEN "exit"
    ELSE "split"

SplitWrites(itd) ==
    ("test_inputs.csv" :> "rows") @@ ("expected_outputs.csv" :> "rows") @@ itd

(***************************************************************************)
(* The container backend.  docker build compiles the script and, when test *)
(* data is present, runs the validation; it returns non-zero when either   *)
(* fails.                                                                  *)
(***************************************************************************)
BackendExit(compiles, hasData, validates) ==
    IF compiles /\ (~hasData \/ validates) THEN 0 ELSE 1

\* mutant: a failed docker build does not stop main
AfterDockerBuildIgnoringFailure(result_code) == "docker_create"

\* if result_code != 0: ... sys.exit(1)
AfterDockerBuild(result_code) == IF result_code # 0 THEN "failed" ELSE "docker_create"

\* fmu_name = f"{config['fmu'].get('output_name', 'DigitalTwin')}.fmu"
FmuName(cfg) == <<Get(cfg["fmu"], "output_name", "DigitalTwin"), ".fmu">>

Without(f, k) == [x \in DOMAIN f \ {k} |-> f[x]]

(***************************************************************************)
(* build_fmu.py main, one action per step.                                 *)
(***************************************************************************)
Step(name, ok) == [step |-> name, ok |-> ok]
Fail(msg) ==
    /\ bpc' = "failed"
    /\ exitStatus' = 1
    /\ report' = Append(report, msg)

\* [1/5] config = load_config(); print(config['project']['name'])
LoadConfig ==
    /\ UNCHANGED <<splitVars, engineVars>>
    /\ bpc = "load_config"
    /\ LET r == LoadConfigOutcome(active)
       IN IF ~r.returned
          THEN /\ Fail(r.msg)
               /\ ran' = Append(ran, Step("load_config", FALSE))
               /\ UNCHANGED config
          ELSE /\ config' = active.tree[YamlPath]
               /\ ran' = Append(ran, Step("load_config", TRUE))
               /\ IF ~Has(active.tree[YamlPath]["project"], "name")
                  THEN Fail(<<"KeyError: ", "name">>)
                  ELSE /\ bpc' = "validate_files"
                       /\ UNCHANGED <<exitStatus, report>>
    /\ UNCHANGED <<buildDir, envState, genResult, genLog>>
    /\ UNCHANGED <<active, inputTestData, output, backend>>
    /\ UNCHANGED ctlVars

\* [2/5] validate_files(config)
ValidateFiles ==
    /\ UNCHANGED <<splitVars, engineVars>>
    /\ bpc = "validate_files"
    /\ LET msg == ValidateFilesOutcome(config, active)
       IN IF msg # <<>>
          THEN /\ Fail(msg)
               /\ ran' = Append(ran, Step("validate_files", FALSE))
          ELSE /\ bpc' = "generate"
               /\ ran' = Append(ran, Step("validate_files", TRUE))
               /\ UNCHANGED <<exitStatus, report>>
    /\ UNCHANGED genVars
    /\ UNCHANGED <<active, inputTestData, output, backend>>
    /\ UNCHANGED ctlVars

\* [3/5] script_path = generate_build_script(config)
MainGenerate ==
    /\ UNCHANGED <<splitVars, engineVars>>
    /\ bpc = "generate"
    /\ GenCall
    /\ IF genResult' = "raised"
       THEN /\ Fail(<<"KeyError">>)
            /\ ran' = Append(ran, Step("generate_build_script", FALSE))
       ELSE /\ bpc' = "split"
            /\ ran' = Append(ran, Step("generate_build_script", TRUE))
            /\ UNCHANGED <<exitStatus, report>>
    /\ UNCHANGED <<active, inputTestData, output, backend>>
    /\ UNCHANGED ctlVars

\* [4/5] the auto-split of the client validation CSV
SplitStep ==
    /\ UNCHANGED <<splitVars, engineVars>>
    /\ bpc = "split"
    /\ LET o == SplitOutcome(config, active, inputTestData)
       IN /\ ran' = Append(ran, Step("split", o # "exit"))
          /\ inputTestData' = IF o = "split" THEN SplitWrites(inputTestData)
                              ELSE inputTestData
          /\ IF o = "exit"
             THEN Fail(<<"Error: Validation CSV">>)
             ELSE /\ bpc' = "docker_build"
                  /\ exitStatus' = exitStatus
                  /\ report' = IF o = "warned"
                               THEN Append(report, <<"  Warning: Failed to split CSV: ">>)
                               ELSE report
    /\ UNCHANGED genVars
    /\ UNCHANGED <<active, output, backend>>
    /\ UNCHANGED ctlVars

\* shutil.copy(script_path, build_mos); docker build
DockerBuild ==
    /\ UNCHANGED <<splitVars, engineVars>>
    /\ bpc = "docker_build"
    /\ \E compiles \in BOOLEAN, validates \in BOOLEAN :
          LET has_test_data == PathExists(active, TestDataDir \o <<"test_inputs.csv">>)
              result_code == BackendExit(compiles, has_test_data, validates)
          IN /\ backend' = [invoked |-> TRUE, compiles |-> compiles,
                            validation |-> IF ~compiles \/ ~has_test_data THEN "not run"
                                           ELSE IF validates THEN "passed" ELSE "failed"]
             /\ ran' = Append(ran, Step("docker_build", result_code = 0))
             /\ IF AfterDockerBuild(result_code) = "failed"
                THEN Fail(<<"ERROR: Docker build failed!">>)
                ELSE /\ bpc' = AfterDockerBuild(result_code)
                     /\ UNCHANGED <<exitStatus, report>>
    /\ buildDir' = ("build.mos" :> buildDir[GeneratedScript]) @@ buildDir
    /\ UNCHANGED <<config, envState, genResult, genLog>>
    /\ UNCHANGED <<active, inputTestData, output>>
    /\ UNCHANGED ctlVars

\* if has_test_data: print("Validation: PASSED (tested inside Docker)")
\* else: print("No validation performed (no test data provided)")
ValidationReport(has_test_data) ==
    IF has_test_data THEN <<"Validation: PASSED (tested inside Docker)">>
    ELSE <<"No validation performed (no test data provided)">>

\* [5/5] docker rm -f; run_command(docker create)
DockerCreate ==
    /\ UNCHANGED <<splitVars, engineVars>>
    /\ bpc = "docker_create"
    /\ \E ok \in BOOLEAN :
          /\ ran' = Append(ran, Step("docker_create", ok))
          /\ IF ok
             THEN /\ bpc' = "docker_cp"
                  /\ UNCHANGED <<exitStatus, report>>
             ELSE Fail(<<"Error executing command: ", "docker create">>)
    /\ UNCHANGED genVars
    /\ UNCHANGED <<active, inputTestData, output, backend>>
    /\ UNCHANGED ctlVars

\* if dst_fmu.exists(): dst_fmu.unlink(); run_command(docker cp); BUILD SUCCESS
DockerCp ==
    /\ UNCHANGED <<splitVars, engineVars>>
    /\ bpc = "docker_cp"
    /\ \E ok \in BOOLEAN :
          /\ ran' = Append(ran, Step("docker_cp", ok))
          /\ IF ok
             THEN /\ output' = (FmuName(config) :> config["project"]["name"]) @@ output
                  /\ bpc' = "done"
                  /\ exitStatus' = 0
                  /\ report' = report \o << <<"BUILD SUCCESS">>,
                                             ValidationReport(PathExists(active,
                                                 TestDataDir \o <<"test_inputs.csv">>)) >>
             ELSE /\ output' = Without(output, FmuName(config))
                  /\ Fail(<<"Error executing command: ", "docker cp">>)
    /\ UNCHANGED genVars
    /\ UNCHANGED <<active, inputTestData, backend>>
    /\ UNCHANGED ctlVars

(***************************************************************************)
(* One run of build_fmu.py main over any staged workspace.                 *)
(***************************************************************************)
ProjectSections == {EmptyDict, [name |-> "Boiler"]}
MainModelica == {EmptyDict, [model_class |-> "Plant.Boiler"]}
MainFiles ==
    {EmptyDict, [dependencies |-> <<"model/A.mo", "model/B.mo">>],
     [main |-> "model/Main.mo", dependencies |-> <<"model/A.mo", "model/B.mo">>]}
MainFmu == {[output_name |-> "Boiler"]}
MainLibs ==
    { <<>>, << [name |-> "LibA", path |-> "LibA/package.mo"] >>,
      << [name |-> "LibA", path |-> "LibA/package.mo"], [name |-> "LibC"] >> }
MainConfigs ==
    { Opt(hasP, "project", p) @@ Opt(hasM, "modelica", m) @@ Opt(hasF, "files", f)
        @@ Opt(hasU, "fmu", u) @@ Opt(ls # <<>>, "external_libraries", ls)
        @@ Opt(hasI, "interface", [inputs |-> <<>>, outputs |-> <<>>]) :
        hasP \in BOOLEAN, p \in ProjectSections, hasM \in BOOLEAN, m \in MainModelica,
        hasF \in BOOLEAN, f \in MainFiles, hasU \in BOOLEAN, u \in MainFmu,
        ls \in MainLibs, hasI \in BOOLEAN }

SourcePaths ==
    { <<"src", "model/Main.mo">>, <<"src", "model/A.mo">>, <<"src", "model/B.mo">>,
      <<"src", "libraries", "LibA/package.mo">> }
TestDataPaths == { <<"test_data", "validation.csv">>, <<"test_data", "test_inputs.csv">> }
InputTestDatas == { EmptyDict, [x \in {"validation.csv"} |-> "rows"],
                    [x \in {"validation.csv"} |-> "empty"] }

Workspace(hasYaml, cfg, paths) ==
    [exists |-> TRUE,
     tree |-> Opt(hasYaml, YamlPath, cfg) @@ [p \in paths |-> "staged"]
                @@ (SrcDir :> DirTag) @@ (TestDataDir :> DirTag)]

\* every configuration over a source tree that is complete or empty, and
\* every configuration load_config accepts over every source tree
Workspaces ==
    { Workspace(hasYaml, cfg, srcs) :
        hasYaml \in BOOLEAN, cfg \in MainConfigs, srcs \in {{}, SourcePaths} }
    \cup
    { Workspace(TRUE, cfg, srcs \cup tds) :
        cfg \in {c \in MainConfigs : LoadConfigOutcome(Workspace(TRUE, c, {})).returned},
        srcs \in SUBSET SourcePaths, tds \in SUBSET TestDataPaths }

InitMain ==
    /\ splitResult = "none"
    /\ EngineIdle
    /\ CtlIdle
    /\ active \in Workspaces
    /\ inputTestData \in InputTestDatas
    /\ output \in {EmptyDict, <<"Boiler", ".fmu">> :> "earlier build"}
    /\ bpc = "load_config"
    /\ exitStatus = -1
    /\ report = <<>>
    /\ ran = <<>>
    /\ backend = NotInvoked
    /\ config = EmptyDict
    /\ buildDir = GeneratedScript :> StaleScript
    /\ envState = "env1"
    /\ genResult = "none"
    /\ genLog = {}

NextMain ==
    \/ LoadConfig
    \/ ValidateFiles
    \/ MainGenerate
    \/ SplitStep
    \/ DockerBuild
    \/ DockerCreate
    \/ DockerCp

SpecMain == InitMain /\ [][NextMain]_vars

(***************************************************************************)
(* twinctl.py.  The projects under input/models: each is a directory tree, *)
(* or absent.  The content of a project's file is tagged with the          *)
(* project's name.                                                         *)
(***************************************************************************)
ModelOrder == <<"A", "B">>
ModelNames == {ModelOrder[i] : i \in 1..Len(ModelOrder)}

ProjectConfig(m, hasMain) ==
    [project |-> [name |-> m],
     modelica |-> [model_class |-> "Plant.Boiler"],
     files |-> IF hasMain THEN [main |-> "model/Main.mo"] ELSE EmptyDict,
     fmu |-> EmptyDict,
     interface |-> [inputs |-> <<>>, outputs |-> <<>>]]

SrcTree(m) == (SrcDir :> DirTag) @@ (<<"src", "model/Main.mo">> :> m)
TestDataTree(m) == (TestDataDir :> DirTag) @@ (<<"test_data", "validation.csv">> :> m)

\* the project directories a name can stand for: absent; without
\* project.yaml; complete; project.yaml alone; no files.main; complete with
\* fmu.output_name set to "A"
ProjectDirs(m) ==
    { [exists |-> FALSE, tree |-> EmptyDict],
      [exists |-> TRUE, tree |-> SrcTree(m)],
      [exists |-> TRUE, tree |-> (YamlPath :> ProjectConfig(m, TRUE)) @@ SrcTree(m) @@ TestDataTree(m)
                                 @@ (<<"README.md">> :> m)],
      [exists |-> TRUE, tree |-> (YamlPath :> ProjectConfig(m, TRUE))],
      [exists |-> TRUE, tree |-> (YamlPath :> ProjectConfig(m, FALSE)) @@ SrcTree(m) @@ TestDataTree(m)],
      [exists |-> TRUE, tree |-> (YamlPath :> [ProjectConfig(m, TRUE) EXCEPT !.fmu = [output_name |-> "A"]])
                                 @@ SrcTree(m)] }

\* the part of tree t at or under directory d
Subtree(t, d) == [p \in {q \in DOMAIN t : IsPrefix(d, q)} |-> t[p]]
\* tree t without what is at or under directory d
Outside(t, d) == [p \in {q \in DOMAIN t : ~IsPrefix(d, q)} |-> t[p]]

\* get_available_models: sorted names of the directories holding a project.yaml
GetAvailableModels(ms) ==
    SelectSeq(ModelOrder, LAMBDA m : PathExists(ms[m], YamlPath))

(***************************************************************************)
(* stage_model: retry_rmtree(path, retries=3, delay=1.0)                   *)
(***************************************************************************)
Retries == 3
Delay == 1

\* mutant: off by one, the last attempt is not recognised and the loop runs out
IsLastAttemptOffByOne(i) == i = Retries

\* if i == retries - 1: raise e
IsLastAttempt(i) == i = Retries - 1

\* shutil.rmtree(path) that returns
RmtreeDone(ws) == [exists |-> FALSE, tree |-> EmptyDict]

\* shutil.rmtree(path) that raises OSError: it may have deleted part of the tree
RmtreeFailed(ws) == {ws, [exists |-> TRUE, tree |-> Outside(ws.tree, TestDataDir)]}

\* mutant: no empty test_data directory for a project without test data
CopyModelNoEmptyTestData(ws, dir) ==
    [exists |-> TRUE,
     tree |-> Subtree(dir.tree, YamlPath)
              @@ (IF PathExists(dir, SrcDir) THEN Subtree(dir.tree, SrcDir) ELSE EmptyDict)
              @@ (IF PathExists(dir, TestDataDir) THEN Subtree(dir.tree, TestDataDir)
                  ELSE EmptyDict)
              @@ ws.tree]

\* ACTIVE_DIR.mkdir(); copytree src; copytree test_data or mkdir; copy project.yaml
CopyModel(ws, dir) ==
    [exists |-> TRUE,
     tree |-> Subtree(dir.tree, YamlPath)
              @@ (IF PathExists(dir, SrcDir) THEN Subtree(dir.tree, SrcDir) ELSE EmptyDict)
              @@ (IF PathExists(dir, TestDataDir) THEN Subtree(dir.tree, TestDataDir)
                  ELSE TestDataDir :> DirTag)
              @@ ws.tree]

\* a copy that raises part way: the source tree is there, the rest is not
CopyModelFailed(ws, dir) ==
    [exists |-> TRUE,
     tree |-> (IF PathExists(dir, SrcDir) THEN Subtree(dir.tree, SrcDir) ELSE EmptyDict)
              @@ ws.tree]

\* _rename_output_fmu
RenameOutput(out, ws, model_name) ==
    LET fmu_name == IF PathExists(ws, YamlPath)
                    THEN Get(Get(ws.tree[YamlPath], "fmu", EmptyDict), "output_name", "DigitalTwin")
                    ELSE "DigitalTwin"
        src_fmu == <<fmu_name, ".fmu">>
        dst_fmu == <<model_name, ".fmu">>
    IN IF Has(out, src_fmu) /\ src_fmu # dst_fmu
       THEN (dst_fmu :> out[src_fmu]) @@ Without(out, src_fmu)
       ELSE out

(***************************************************************************)
(* twinctl.py build: cmd_build and stage_model, one action per step.       *)
(***************************************************************************)
MaxRuns == 2

Commands ==
    {[all |-> TRUE, model |-> ""], [all |-> FALSE, model |-> ""]}
    \cup {[all |-> FALSE, model |-> m] : m \in ModelNames}

\* mutant: a failure ends build --all at once
CtlFailAbortsBatch ==
    /\ texit' = 1
    /\ tpc' = "exited"
    /\ UNCHANGED results

\* sys.exit(1) of twinctl, or the SystemExit caught by the build --all loop
CtlFail ==
    IF cmd.all
    THEN /\ results' = (current :> "FAIL") @@ results
         /\ tpc' = "loop"
         /\ UNCHANGED texit
    ELSE /\ texit' = 1
         /\ tpc' = "exited"
         /\ UNCHANGED results

\* cmd_build, up to the first stage_model call
CmdBuild ==
    /\ UNCHANGED <<splitVars, engineVars>>
    /\ tpc = "start"
    /\ \E c \in Commands :
          /\ cmd' = c
          /\ IF c.all
             THEN /\ queue' = GetAvailableModels(models)
                  /\ current' = ""
                  /\ IF GetAvailableModels(models) = <<>>
                     THEN texit' = 1 /\ tpc' = "exited"
                     ELSE texit' = texit /\ tpc' = "loop"
             ELSE /\ queue' = <<>>
                  /\ current' = c.model
                  /\ IF c.model = ""
                     THEN texit' = 1 /\ tpc' = "exited"
                     ELSE texit' = texit /\ tpc' = "stage_check"
    /\ UNCHANGED <<models, results, rmOutcomes, delays, stageStatus, staged, wsOps, runs, before>>
    /\ UNCHANGED <<genVars, mainVars>>

\* for model in models: ... ; the summary and the exit status
LoopNext ==
    /\ UNCHANGED <<splitVars, engineVars>>
    /\ tpc = "loop"
    /\ IF queue = <<>>
       THEN /\ texit' = IF \E m \in DOMAIN results : results[m] = "FAIL" THEN 1 ELSE 0
            /\ tpc' = "exited"
            /\ UNCHANGED <<current, queue>>
       ELSE /\ current' = Head(queue)
            /\ queue' = Tail(queue)
            /\ tpc' = "stage_check"
            /\ UNCHANGED texit
    /\ UNCHANGED <<models, cmd, results, rmOutcomes, delays, stageStatus, staged, wsOps, runs, before>>
    /\ UNCHANGED <<genVars, mainVars>>

\* mutant: the presence of project.yaml is not checked
StageCheckOutcomeNoYamlCheck(dir) ==
    IF ~dir.exists THEN "not_found" ELSE "running"

\* if not model_dir.exists(): ...; if not (model_dir / "project.yaml").exists(): ...
StageCheckOutcome(dir) ==
    IF ~dir.exists THEN "not_found"
    ELSE IF ~PathExists(dir, YamlPath) THEN "no_yaml"
    ELSE "running"

\* stage_model: the two checks of the model directory
StageCheck ==
    /\ UNCHANGED <<splitVars, engineVars>>
    /\ tpc = "stage_check"
    /\ rmOutcomes' = <<>>
    /\ delays' = <<>>
    /\ before' = active
    /\ stageStatus' = StageCheckOutcome(models[current])
    /\ IF StageCheckOutcome(models[current]) # "running"
       THEN CtlFail
       ELSE /\ tpc' = IF active.exists THEN "stage_rmtree" ELSE "stage_copy"
            /\ UNCHANGED <<results, texit>>
    /\ UNCHANGED <<models, cmd, current, queue, staged, wsOps, runs>>
    /\ UNCHANGED <<genVars, mainVars>>

\* one iteration of the loop of retry_rmtree
RmtreeAttempt ==
    /\ UNCHANGED <<splitVars, engineVars>>
    /\ tpc = "stage_rmtree"
    /\ wsOps' = Append(wsOps, "rmtree")
    /\ \/ /\ active' = RmtreeDone(active)
          /\ rmOutcomes' = Append(rmOutcomes, TRUE)
          /\ tpc' = "stage_copy"
          /\ UNCHANGED <<delays, stageStatus, results, texit>>
       \/ /\ active' \in RmtreeFailed(active)
          /\ rmOutcomes' = Append(rmOutcomes, FALSE)
          /\ IF IsLastAttempt(Len(rmOutcomes))
             THEN /\ stageStatus' = "clean_failed"
                  /\ CtlFail
                  /\ UNCHANGED delays
             ELSE /\ delays' = Append(delays, Delay)
                  /\ tpc' = IF Len(rmOutcomes) + 1 < Retries THEN "stage_rmtree"
                            ELSE "stage_copy"
                  /\ UNCHANGED <<stageStatus, results, texit>>
    /\ UNCHANGED <<models, cmd, current, queue, staged, runs, before>>
    /\ UNCHANGED genVars
    /\ UNCHANGED <<inputTestData, output, bpc, exitStatus, report, ran, backend>>

\* ACTIVE_DIR.mkdir(parents=True) and the copies
StageCopy ==
    /\ UNCHANGED <<splitVars, engineVars>>
    /\ tpc = "stage_copy"
    /\ wsOps' = Append(wsOps, "copy")
    /\ IF active.exists
       THEN /\ stageStatus' = "crashed"
            /\ texit' = 1
            /\ tpc' = "exited"
            /\ UNCHANGED <<active, staged, results>>
       ELSE \/ /\ active' = CopyModel(active, models[current])
               /\ stageStatus' = "ok"
               /\ staged' = Append(staged, [model |-> current, tree |-> active'.tree])
               /\ tpc' = "run_build"
               /\ UNCHANGED <<results, texit>>
            \/ /\ active' = CopyModelFailed(active, models[current])
               /\ stageStatus' = "copy_failed"
               /\ CtlFail
               /\ UNCHANGED staged
    /\ UNCHANGED <<models, cmd, current, queue, rmOutcomes, delays, runs, before>>
    /\ UNCHANGED genVars
    /\ UNCHANGED <<inputTestData, output, bpc, exitStatus, report, ran, backend>>

\* python build/build_fmu.py is started
RunBuild ==
    /\ UNCHANGED <<splitVars, engineVars>>
    /\ tpc = "run_build"
    /\ tpc' = "wait_build"
    /\ bpc' = "load_config"
    /\ exitStatus' = -1
    /\ report' = <<>>
    /\ ran' = <<>>
    /\ backend' = NotInvoked
    /\ config' = EmptyDict
    /\ genResult' = "none"
    /\ UNCHANGED <<models, cmd, current, queue, results, texit, rmOutcomes, delays,
                   stageStatus, staged, wsOps, runs, before>>
    /\ UNCHANGED <<buildDir, envState, genLog, active, inputTestData, output>>

\* mutant: twinctl goes on while the build process is still running
BuildEndedNoWait == TRUE

\* subprocess.check_call blocks until the build process has ended
BuildEnded == bpc \in {"done", "failed"}

\* the build process has ended: check_call returns or raises
BuildReturned ==
    /\ UNCHANGED <<splitVars, engineVars>>
    /\ tpc = "wait_build"
    /\ BuildEnded
    /\ bpc' = "idle"
    /\ IF exitStatus = 0
       THEN /\ tpc' = "rename"
            /\ UNCHANGED <<results, texit>>
       ELSE CtlFail
    /\ UNCHANGED <<models, cmd, current, queue, rmOutcomes, delays, stageStatus, staged,
                   wsOps, runs, before>>
    /\ UNCHANGED genVars
    /\ UNCHANGED <<active, inputTestData, output, exitStatus, report, ran, backend>>

\* _rename_output_fmu(model)
Rename ==
    /\ UNCHANGED <<splitVars, engineVars>>
    /\ tpc = "rename"
    /\ output' = RenameOutput(output, active, current)
    /\ IF cmd.all
       THEN /\ results' = (current :> "PASS") @@ results
            /\ tpc' = "loop"
            /\ UNCHANGED texit
       ELSE /\ texit' = 0
            /\ tpc' = "exited"
            /\ UNCHANGED results
    /\ UNCHANGED <<models, cmd, current, queue, rmOutcomes, delays, stageStatus, staged,
                   wsOps, runs, before>>
    /\ UNCHANGED genVars
    /\ UNCHANGED <<active, inputTestData, bpc, exitStatus, report, ran, backend>>

\* twinctl is run again
Restart ==
    /\ UNCHANGED <<splitVars, engineVars>>
    /\ tpc = "exited"
    /\ runs < MaxRuns
    /\ runs' = runs + 1
    /\ tpc' = "start"
    /\ texit' = -1
    /\ results' = EmptyDict
    /\ queue' = <<>>
    /\ current' = ""
    /\ wsOps' = <<>>
    /\ rmOutcomes' = <<>>
    /\ delays' = <<>>
    /\ stageStatus' = "none"
    /\ UNCHANGED <<models, cmd, staged, before>>
    /\ UNCHANGED <<genVars, mainVars>>

\* what is in input/_active before the first run: nothing, or the files an
\* earlier staging and build left there
StrayWorkspace ==
    [exists |-> TRUE,
     tree |-> (TestDataDir :> DirTag) @@ (<<"test_data", "test_script.py">> :> "stray")
              @@ (<<"test_data", "test_inputs.csv">> :> "stray")]

Init ==
    /\ splitResult = "none"
    /\ EngineIdle
    /\ models \in [ModelNames -> UNION {ProjectDirs(m) : m \in ModelNames}]
    /\ \A m \in ModelNames : models[m] \in ProjectDirs(m)
    /\ active \in {[exists |-> FALSE, tree |-> EmptyDict], StrayWorkspace}
    /\ inputTestData \in {EmptyDict, [x \in {"validation.csv"} |-> "rows"]}
    /\ output = EmptyDict
    /\ bpc = "idle"
    /\ exitStatus = -1
    /\ report = <<>>
    /\ ran = <<>>
    /\ backend = NotInvoked
    /\ config = EmptyDict
    /\ buildDir = GeneratedScript :> StaleScript
    /\ envState = "env1"
    /\ genResult = "none"
    /\ genLog = {}
    /\ cmd = [all |-> FALSE, model |-> ""]
    /\ tpc = "start"
    /\ current = ""
    /\ queue = <<>>
    /\ results = EmptyDict
    /\ texit = -1
    /\ rmOutcomes = <<>>
    /\ delays = <<>>
    /\ stageStatus = "none"
    /\ staged = <<>>
    /\ wsOps = <<>>
    /\ runs = 1
    /\ before = [exists |-> FALSE, tree |-> EmptyDict]

Next ==
    \/ CmdBuild
    \/ LoopNext
    \/ StageCheck
    \/ RmtreeAttempt
    \/ StageCopy
    \/ RunBuild
    \/ LoadConfig
    \/ ValidateFiles
    \/ MainGenerate
    \/ SplitStep
    \/ DockerBuild
    \/ DockerCreate
    \/ DockerCp
    \/ BuildReturned
    \/ Rename
    \/ Restart

Spec == Init /\ [][Next]_vars

(***************************************************************************)
(* split_validation_csv.py.  A CSV file is its header line and its data    *)
(* lines, each a list of fields.  csv.DictReader turns a data line into a  *)
(* dict keyed by the header fields; csv.DictWriter turns a dict back into  *)
(* a line, one field per name of its fieldnames.                           *)
(***************************************************************************)
MaxRows == 2
CsvValues == {"1", "2"}

SeqToSet(s) == {s[i] : i \in 1..Len(s)}
CsvFile(fieldnames, rows) == [fieldnames |-> fieldnames, rows |-> rows]

\* the position a dict built from a line takes the value of key x from
LastIndex(s, x) ==
    CHOOSE i \in 1..Len(s) : s[i] = x /\ \A j \in (i + 1)..Len(s) : s[j] # x

\* reader = csv.DictReader(f); all_rows = list(reader)
DictReader(file) ==
    [i \in 1..Len(file.rows) |->
        [c \in SeqToSet(file.fieldnames) |->
            file.rows[i][LastIndex(file.fieldnames, c)]]]

\* [inp['name'] for inp in config['interface'][key]]: the subscripts raise
\* KeyError on a missing key
NamesRaise(cfg, key) ==
    \/ ~Has(cfg, "interface")
    \/ ~Has(cfg["interface"], key)
    \/ \E i \in 1..Len(cfg["interface"][key]) : ~Has(cfg["interface"][key][i], "name")
Names(cfg, key) ==
    [i \in 1..Len(cfg["interface"][key]) |-> cfg["interface"][key][i]["name"]]

\* [name for name in names if name not in csv_columns]
MissingCols(names, csv_columns) ==
    SelectSeq(names, LAMBDA n : n \notin SeqToSet(csv_columns))

\* mutant: the configured names are not filtered by the columns of the file
ResolvedColsUnfiltered(names, csv_columns) == <<"time">> \o names

\* ['time'] + [name for name in names if name in csv_columns]
ResolvedCols(names, csv_columns) ==
    <<"time">> \o SelectSeq(names, LAMBDA n : n \in SeqToSet(csv_columns))

\* mutant: every field is written blank
RowGetBlank(row, col) == ""

\* row.get(col, '')
RowGet(row, col) == IF col \in DOMAIN row THEN row[col] ELSE ""

\* mutant: the rows are written last first
DictWriterReversed(cols, all_rows) ==
    CsvFile(cols,
            [i \in 1..Len(all_rows) |->
                [j \in 1..Len(cols) |-> RowGet(all_rows[Len(all_rows) + 1 - i], cols[j])]])

\* writer = csv.DictWriter(f, fieldnames=cols); writeheader(); a writerow per row
DictWriter(cols, all_rows) ==
    CsvFile(cols,
            [i \in 1..Len(all_rows) |->
                [j \in 1..Len(cols) |-> RowGet(all_rows[i], cols[j])]])

SplitNotFoundMsg(f) == <<"Error: ", "input/test_data/", f, " not found!">>
SplitEmptyMsg == <<"Error: Validation CSV is empty!">>
MissingInputsMsg(missing) == <<"Warning: Missing input columns: ", missing>>
MissingOutputsMsg(missing) == <<"Warning: Missing output columns: ", missing>>

\* split_validation_csv(validation_file, config) over directory dir
\* (input/test_data): how it ends, the directory after, the lines printed
SplitValidationCsv(validation_file, cfg, dir) ==
    IF ~Has(dir, validation_file)
    THEN [result |-> "exit", dir |-> dir, out |-> <<SplitNotFoundMsg(validation_file)>>]
    ELSE IF NamesRaise(cfg, "inputs") \/ NamesRaise(cfg, "outputs")
    THEN [result |-> "raised", dir |-> dir, out |-> <<>>]
    ELSE LET input_names == Names(cfg, "inputs")
             output_names == Names(cfg, "outputs")
             all_rows == DictReader(dir[validation_file])
             csv_columns == dir[validation_file].fieldnames
             missing_inputs == MissingCols(input_names, csv_columns)
             missing_outputs == MissingCols(output_names, csv_columns)
             input_cols == ResolvedCols(input_names, csv_columns)
             output_cols == ResolvedCols(output_names, csv_columns)
         IN IF all_rows = <<>>
            THEN [result |-> "exit", dir |-> dir, out |-> <<SplitEmptyMsg>>]
            ELSE [result |-> "returned",
                  dir |-> ("test_inputs.csv" :> DictWriter(input_cols, all_rows))
                          @@ ("expected_outputs.csv" :> DictWriter(output_cols, all_rows))
                          @@ dir,
                  out |-> (IF missing_inputs # <<>>
                           THEN <<MissingInputsMsg(missing_inputs)>> ELSE <<>>)
                          \o (IF missing_outputs # <<>>
                              THEN <<MissingOutputsMsg(missing_outputs)>> ELSE <<>>)]

(***************************************************************************)
(* The splitter on its own: one call over any combined file and any        *)
(* configuration load_config accepts.                                      *)
(***************************************************************************)
SplitHeaders ==
    { <<"time", "u", "y">>, <<"y", "time", "u">>, <<"time", "u">>, <<"u", "y">>,
      <<"time", "w", "y">>, <<>> }
CsvFiles ==
    UNION { { CsvFile(h, rows) : rows \in SeqsUpTo([1..Len(h) -> CsvValues], MaxRows) } :
            h \in SplitHeaders \ {<<>>} }
    \cup {CsvFile(<<>>, <<>>)}
StaleInputs == CsvFile(<<"time", "old">>, << <<"9", "9">> >>)
SplitDirs ==
    {EmptyDict, "test_inputs.csv" :> StaleInputs}
    \cup { "validation.csv" :> f : f \in CsvFiles }
    \cup { ("validation.csv" :> f) @@ ("test_inputs.csv" :> StaleInputs) :
             f \in {g \in CsvFiles : g.fieldnames = <<"time", "u", "y">> /\ Len(g.rows) = 1} }
SplitInputs ==
    { <<>>, << [name |-> "u"] >>, << [name |-> "u"], [name |-> "v"] >>,
      << [name |-> "v", fmu_variable |-> "x"], [name |-> "u"] >>,
      << [fmu_variable |-> "x"] >> }
SplitOutputs ==
    { <<>>, << [name |-> "y"] >>, << [name |-> "y"], [name |-> "z"] >>,
      << [name |-> "u"] >> }
Interfaces ==
    { [inputs |-> i, outputs |-> o] : i \in SplitInputs, o \in SplitOutputs }
    \cup { [inputs |-> << [name |-> "u"] >>] }
SplitConfigs ==
    { [project |-> [name |-> "Boiler"], modelica |-> [model_class |-> "Plant.Boiler"],
       files |-> [main |-> "model/Main.mo"], fmu |-> EmptyDict]
        @@ Opt(hasI, "interface", i) : hasI \in BOOLEAN, i \in Interfaces }

InitSplit ==
    /\ splitResult = "none"
    /\ EngineIdle
    /\ CtlIdle
    /\ config \in SplitConfigs
    /\ LoadConfigOutcome(Workspace(TRUE, config, {})).returned
    /\ inputTestData \in SplitDirs
    /\ active = [exists |-> FALSE, tree |-> EmptyDict]
    /\ output = EmptyDict
    /\ bpc = "idle"
    /\ exitStatus = -1
    /\ report = <<>>
    /\ ran = <<>>
    /\ backend = NotInvoked
    /\ buildDir = GeneratedScript :> StaleScript
    /\ envState = "env1"
    /\ genResult = "none"
    /\ genLog = {}

\* one call split_validation_csv("validation.csv", config)
SplitCall ==
    /\ LET r == SplitValidationCsv(CsvFileName(config), config, inputTestData)
       IN /\ splitResult' = r.result
          /\ inputTestData' = r.dir
          /\ report' = r.out
    /\ UNCHANGED genVars
    /\ UNCHANGED <<active, output, bpc, exitStatus, ran, backend>>
    /\ UNCHANGED <<ctlVars, engineVars>>

NextSplit == SplitCall

SpecSplit == InitSplit /\ [][NextSplit]_vars

(***************************************************************************)
(* Reading a script back: its directives.                                  *)
(***************************************************************************)
IsLoadFile(line) == Len(line) > 0 /\ line[1] = "loadFile(\""
IsBuildModelFMU(line) == Len(line) > 0 /\ line[1] = "buildModelFMU("
IsComment(line) == Len(line) > 0 /\ line[1] \in
    {"// Auto-generated build script from project.yaml", "// Load main model file",
     "// Load external library: ", "// Build FMU", "// Print any errors",
     "// Load Modelica Standard Library v"}
LoadedPath(line) == <<line[2], line[3]>>
LoadIndices(text) == {i \in 1..Len(text) : IsLoadFile(text[i])}
BuildIndices(text) == {i \in 1..Len(text) : IsBuildModelFMU(text[i])}
LoadedPaths(text) ==
    LET loads == SelectSeq(text, IsLoadFile)
    IN [i \in 1..Len(loads) |-> LoadedPath(loads[i])]

\* the loads the configuration declares: libraries, main, dependencies
DeclaredLoads(cfg) ==
    LET libs == Get(cfg, "external_libraries", <<>>)
        deps == Get(cfg["files"], "dependencies", <<>>)
        N == Len(libs)
        M == Len(deps)
    IN [i \in 1..(N + 1 + M) |->
          IF i <= N THEN <<"input/src/libraries/", libs[i]["path"]>>
          ELSE IF i = N + 1 THEN <<"input/src/", cfg["files"]["main"]>>
          ELSE <<"input/src/", deps[i - N - 1]>>]

ScriptWritten == genResult = "returned"
Script == buildDir[GeneratedScript]

\* C1: the loadFile directives of the generated script are the N external
\* libraries in declaration order, then the main file, then the M
\* dependencies in declaration order, and the line right after each
\* loadFile directive is getErrorString().
C1_LoadOrder ==
    ScriptWritten =>
        /\ LoadedPaths(Script) = DeclaredLoads(config)
        /\ \A i \in LoadIndices(Script) :
              i + 1 <= Len(Script) /\ Script[i + 1] = GetErrorString

C1_Witness ==
    /\ ScriptWritten
    /\ Len(Get(config, "external_libraries", <<>>)) = 2
    /\ Len(Get(config["files"], "dependencies", <<>>)) = 2
    /\ config["external_libraries"][1] # config["external_libraries"][2]
    /\ config["files"]["dependencies"][1] # config["files"]["dependencies"][2]

\* C2: two calls of generate_build_script with equal configurations write
\* the same script text, whatever the environment and the earlier content
\* of the build directory were.
C2_Deterministic ==
    \A a \in genLog : \A b \in genLog : a.cfg = b.cfg => a.text = b.text

C2_Witness ==
    \E a \in genLog : \E b \in genLog :
        a.cfg = b.cfg /\ a.env # b.env

\* C3: the script holds exactly one buildModelFMU directive, after every
\* loadFile; it names modelica.model_class and carries version, fmuType,
\* fileNamePrefix and platforms from the fmu section, "2.0", "cs",
\* "DigitalTwin" and "static" standing in for an absent key; the last line
\* of the script is a getErrorString() that follows it, with no other
\* directive in between.
FmuOr(cfg, k, default) ==
    IF k \in DOMAIN cfg["fmu"] THEN cfg["fmu"][k] ELSE default

C3_BuildDirective ==
    ScriptWritten =>
        /\ Cardinality(BuildIndices(Script)) = 1
        /\ \A b \in BuildIndices(Script) :
              /\ \A i \in LoadIndices(Script) : i < b
              /\ b + 6 < Len(Script)
              /\ Script[b + 1] = <<"    ", config["modelica"]["model_class"], ",">>
              /\ Script[b + 2] = <<"    version=\"", FmuOr(config, "version", "2.0"), "\",">>
              /\ Script[b + 3] = <<"    fmuType=\"", FmuOr(config, "type", "cs"), "\",">>
              /\ Script[b + 4] = <<"    fileNamePrefix=\"", FmuOr(config, "output_name", "DigitalTwin"), "\",">>
              /\ Script[b + 5] = <<"    platforms={\"", FmuOr(config, "platform", "static"), "\"}">>
              /\ Script[b + 6] = <<");">>
              /\ Script[Len(Script)] = GetErrorString
              /\ \A j \in (b + 7)..(Len(Script) - 1) :
                    Script[j] = Blank \/ IsComment(Script[j])

C3_Witness ==
    /\ ScriptWritten
    /\ DOMAIN config["fmu"] = {"version", "platform"}
    /\ Len(Get(config, "external_libraries", <<>>)) > 0
    /\ Len(Get(config["files"], "dependencies", <<>>)) > 0

(***************************************************************************)
(* Claims about build_fmu.py main (SpecMain).                              *)
(***************************************************************************)
AllSteps ==
    <<"load_config", "validate_files", "generate_build_script", "split",
      "docker_build", "docker_create", "docker_cp">>
StepsRan == [i \in 1..Len(ran) |-> ran[i].step]
SuccessReported == \E i \in 1..Len(report) : report[i] = <<"BUILD SUCCESS">>

\* C4: main reports BUILD SUCCESS and exits 0 only if load_config,
\* validate_files, script generation, docker build (with the validation in
\* the container) and the extraction all succeeded; a step that fails
\* fatally is the last step executed and the process ends non-zero.
C4_SuccessOnlyIfAllSteps ==
    /\ (SuccessReported \/ exitStatus = 0) =>
          /\ SuccessReported /\ exitStatus = 0
          /\ StepsRan = AllSteps
          /\ \A i \in 1..Len(ran) : ran[i].ok
          /\ backend.invoked /\ backend.compiles /\ backend.validation # "failed"
    /\ \A i \in 1..Len(ran) :
          ~ran[i].ok => i = Len(ran) /\ bpc = "failed" /\ exitStatus = 1

C4_Witness ==
    /\ bpc = "done"
    /\ backend.validation = "passed"
    /\ Len(Get(config, "external_libraries", <<>>)) = 1

\* C6: load_config ends with an error naming a missing field whenever one
\* of project, modelica, files, fmu, modelica.model_class, files.main is
\* missing, the six errors are pairwise distinct, and it returns the
\* configuration exactly when all six are present.
SixFields == {"project", "modelica", "files", "fmu", "modelica.model_class", "files.main"}
FieldPresent(cfg, f) ==
    CASE f = "modelica.model_class" ->
            "modelica" \in DOMAIN cfg /\ "model_class" \in DOMAIN cfg["modelica"]
      [] f = "files.main" -> "files" \in DOMAIN cfg /\ "main" \in DOMAIN cfg["files"]
      [] OTHER -> f \in DOMAIN cfg
FieldError(f) ==
    IF f \in {"modelica.model_class", "files.main"}
    THEN <<"Error: '", f, "' is required in project.yaml">>
    ELSE <<"Error: '", f, "' section missing in project.yaml">>
StagedYaml == active.tree[YamlPath]

C6_FieldNamedErrors ==
    (Len(ran) >= 1 /\ PathExists(active, YamlPath)) =>
        /\ ran[1].ok <=> \A f \in SixFields : FieldPresent(StagedYaml, f)
        /\ ran[1].ok => config = StagedYaml
        /\ ~ran[1].ok =>
              /\ exitStatus = 1
              /\ \E f \in SixFields :
                    ~FieldPresent(StagedYaml, f) /\ report = <<FieldError(f)>>
        /\ \A f \in SixFields :
              (\A g \in SixFields : FieldPresent(StagedYaml, g) <=> g # f)
                  => report = <<FieldError(f)>>
        /\ \A f \in SixFields : \A g \in SixFields : f # g => FieldError(f) # FieldError(g)

C6_Witness ==
    /\ Len(ran) = 1 /\ ~ran[1].ok
    /\ PathExists(active, YamlPath)
    /\ \A g \in SixFields : FieldPresent(StagedYaml, g) <=> g # "files.main"
    /\ report = << <<"Error: '", "files.main", "' is required in project.yaml">> >>

\* C7: validate_files runs only after load_config has returned and before
\* generate_build_script; when the main file, a dependency or a library
\* path is missing from the staged source root the run stops there with a
\* fatal error: no script is generated, the backend is not invoked.  A file
\* error is only ever printed for a configuration load_config accepted.
ReferencedPaths(cfg) ==
    {<<"src", cfg["files"]["main"]>>}
    \cup {<<"src", d>> : d \in {Get(cfg["files"], "dependencies", <<>>)[i] :
                                 i \in 1..Len(Get(cfg["files"], "dependencies", <<>>))}}
    \cup {<<"src", "libraries", l["path"]>> :
             l \in {x \in {Get(cfg, "external_libraries", <<>>)[i] :
                             i \in 1..Len(Get(cfg, "external_libraries", <<>>))} :
                      "path" \in DOMAIN x}}
MissingReferenced(cfg, ws) == {p \in ReferencedPaths(cfg) : ~PathExists(ws, p)}
FileErrorHeads ==
    {"Error: Main file not found: ", "Error: Dependency file not found: ",
     "Error: External library not found: "}
ValidateRan == Len(ran) >= 2 /\ ran[2].step = "validate_files"

C7_FilesCheckedBeforeScript ==
    /\ \A i \in 1..Len(ran) :
          /\ ran[i].step = "validate_files" => i = 2 /\ ran[1] = Step("load_config", TRUE)
          /\ ran[i].step = "generate_build_script" => i = 3 /\ ran[2] = Step("validate_files", TRUE)
    /\ (ValidateRan /\ MissingReferenced(config, active) # {}) =>
          /\ bpc = "failed" /\ exitStatus = 1
          /\ Len(ran) = 2 /\ ~ran[2].ok
          /\ genResult = "none" /\ genLog = {}
          /\ "build.mos" \notin DOMAIN buildDir
          /\ ~backend.invoked
    /\ \A i \in 1..Len(report) :
          report[i][1] \in FileErrorHeads =>
              \A f \in SixFields : FieldPresent(StagedYaml, f)

C7_Witness ==
    /\ ValidateRan
    /\ MissingReferenced(config, active) = {<<"src", "model/B.mo">>}
    /\ bpc = "failed"

\* C8: when several referenced paths are missing, validate_files reports
\* each of them before the build stops, and no declared dependency or
\* library entry is passed over by the existence check.
C8_EveryMissingPathReported ==
    ValidateRan =>
        /\ \A p \in MissingReferenced(config, active) :
              \E i \in 1..Len(report) :
                  report[i][1] \in FileErrorHeads /\ report[i][2] = p
        /\ \A i \in 1..Len(Get(config, "external_libraries", <<>>)) :
              "path" \notin DOMAIN config["external_libraries"][i] => ~ran[2].ok

(***************************************************************************)
(* Claims about twinctl.py build (Spec).                                   *)
(***************************************************************************)
MainRequiredReported ==
    \E i \in 1..Len(report) :
        report[i] = <<"Error: '", "files.main", "' is required in project.yaml">>

\* C5: in a build of a project whose configuration lacks files.main the
\* configuration error comes before any staging or compilation: when it is
\* raised input/_active has been neither cleared nor written and the
\* backend has not been invoked.
C5_ConfigErrorBeforeStaging ==
    (MainRequiredReported /\ tpc = "wait_build") =>
        /\ wsOps = <<>>
        /\ active = before
        /\ ~backend.invoked

\* the workspace a successful stage_model of project directory dir leaves
ExpectedStaged(dir) ==
    LET kept == {p \in DOMAIN dir.tree : p[1] \in {"project.yaml", "src", "test_data"}}
    IN [p \in kept \cup {TestDataDir} |->
          IF p \in kept THEN dir.tree[p] ELSE DirTag]

StageSucceeded == stageStatus = "ok" /\ tpc = "run_build"

\* C9: after a successful stage_model(P) input/_active holds exactly the
\* copy of P's src tree (if any), the copy of P's test_data tree or an empty
\* test_data directory, and P's project.yaml: nothing of the workspace
\* before the call survives; two successive stagings of one project leave
\* identical trees.
C9_StagedExactly ==
    /\ \A i \in 1..Len(staged) :
          staged[i].tree = ExpectedStaged(models[staged[i].model])
    /\ \A i \in 1..(Len(staged) - 1) :
          staged[i].model = staged[i + 1].model => staged[i].tree = staged[i + 1].tree
    /\ StageSucceeded =>
          /\ active.exists
          /\ active.tree = ExpectedStaged(models[current])
          /\ \A p \in DOMAIN before.tree :
                p \in DOMAIN active.tree =>
                    /\ p \in DOMAIN ExpectedStaged(models[current])
                    /\ active.tree[p] = ExpectedStaged(models[current])[p]

C9_Witness ==
    /\ StageSucceeded
    /\ Len(staged) = 2
    /\ staged[1].model = staged[2].model
    /\ <<"src", "model/Main.mo">> \in DOMAIN active.tree
    /\ before.exists

\* C10: the clean-up of input/_active is attempted at most 3 times, no
\* attempt follows one that succeeded, and stage_model gives up (fatal exit)
\* exactly when all 3 attempts have failed; it then neither recreates the
\* workspace nor copies any project file.
C10_RetryBounded ==
    /\ Len(rmOutcomes) <= 3
    /\ \A i \in 1..(Len(rmOutcomes) - 1) : ~rmOutcomes[i]
    /\ stageStatus = "clean_failed" <=> rmOutcomes = <<FALSE, FALSE, FALSE>>
    /\ (stageStatus = "clean_failed" /\ tpc \in {"loop", "exited"}) =>
          IF cmd.all THEN results[current] = "FAIL" ELSE texit = 1
    /\ stageStatus = "clean_failed" =>
          /\ tpc \in {"loop", "exited", "stage_check"}
          /\ active.exists
          /\ \A p \in DOMAIN active.tree :
                p \in DOMAIN before.tree /\ active.tree[p] = before.tree[p]

C10_Witness ==
    /\ stageStatus = "clean_failed"
    /\ rmOutcomes = <<FALSE, FALSE, FALSE>>
    /\ active # before

\* C11: in the clean-up retry of stage_model the delay slept before each
\* further deletion attempt is strictly greater than the delay slept before
\* the attempt preceding it.
C11_IncreasingDelay ==
    \A i \in 1..(Len(delays) - 1) : delays[i] < delays[i + 1]

\* a stage_model call that ended at one of the two checks of the model directory
StageRejected == stageStatus \in {"not_found", "no_yaml"}

\* C12: stage_model of a project whose directory is absent or holds no
\* project.yaml exits fatally before the workspace is cleared: no deletion
\* is attempted and input/_active is what it was before the call; a call
\* that goes on to clear or fill the workspace is for a project directory
\* that holds a project.yaml.
C12_RejectedBeforeClearing ==
    /\ StageRejected =>
          /\ active = before
          /\ rmOutcomes = <<>>
          /\ tpc \in {"loop", "exited", "stage_check"}
    /\ (StageRejected /\ tpc \in {"loop", "exited"}) =>
          /\ ~PathExists(models[current], YamlPath)
          /\ IF cmd.all THEN results[current] = "FAIL" ELSE texit = 1
    /\ tpc \in {"stage_rmtree", "stage_copy", "run_build"} =>
          PathExists(models[current], YamlPath)

C12_Witness ==
    /\ stageStatus = "no_yaml"
    /\ models[current].exists
    /\ tpc = "exited"
    /\ before.exists
    /\ <<"src", "model/Main.mo">> \in DOMAIN active.tree

\* the models build --all has to attempt, in order, and the first k of them
Avail == GetAvailableModels(models)
FirstModels(k) == {Avail[i] : i \in 1..k}
BatchRunning == cmd.all /\ tpc \notin {"idle", "start"}

\* where a batch stands: the first k models have been started, the rest
\* wait in order; all started models but the one in progress have a result
BatchProgress ==
    \E k \in 0..Len(Avail) :
        /\ queue = SubSeq(Avail, k + 1, Len(Avail))
        /\ IF tpc \in {"loop", "exited"}
           THEN DOMAIN results = FirstModels(k)
           ELSE /\ k >= 1
                /\ current = Avail[k]
                /\ DOMAIN results = FirstModels(k - 1)

\* a result once recorded is kept until the command ends
ResultsKept ==
    tpc # "exited" =>
        \A m \in DOMAIN results : m \in DOMAIN results' /\ results'[m] = results[m]

C14_OwnPackageKept ==
    (cmd.all /\ tpc = "exited") =>
        \A m \in DOMAIN results :
            results[m] = "PASS" =>
                /\ <<m, ".fmu">> \in DOMAIN output
                /\ output[<<m, ".fmu">>] = m

(***************************************************************************)
(* Claims about the splitter step of build_fmu.py main (SpecMain).         *)
(***************************************************************************)
SplitRan == Len(ran) >= 4 /\ ran[4].step = "split"
StagedCsv == TestDataDir \o <<CsvFileName(config)>>

\* C15: when input/_active/test_data holds the configured combined file,
\* the splitter step reads that file and writes test_inputs.csv and
\* expected_outputs.csv into input/_active/test_data, so that the test-data
\* check finds test_inputs.csv and the backend performs the validation.
C15_SplitsStagedFile ==
    (SplitRan /\ PathExists(active, StagedCsv) /\ Has(config, "interface")) =>
        /\ ran[4].ok
        /\ PathExists(active, TestDataDir \o <<"test_inputs.csv">>)
        /\ PathExists(active, TestDataDir \o <<"expected_outputs.csv">>)
        /\ (backend.invoked /\ backend.compiles) => backend.validation # "not run"

\* C20: apart from unresolved interface column names, a failure of the
\* splitter step is fatal to the build: the step does not end in a warning
\* and the backend is not invoked after it.
C20_SplitFailureFatal ==
    (SplitRan /\ SplitOutcome(config, active, inputTestData) \notin {"skipped", "split"}) =>
        /\ ~ran[4].ok
        /\ bpc = "failed"
        /\ exitStatus = 1
        /\ ~backend.invoked

(***************************************************************************)
(* Claims about split_validation_csv (SpecSplit).                          *)
(***************************************************************************)
Combined == inputTestData["validation.csv"]
WrittenInputs == inputTestData["test_inputs.csv"]
WrittenOutputs == inputTestData["expected_outputs.csv"]
SplitReturned == splitResult = "returned"
CombinedHasRows == Has(inputTestData, "validation.csv") /\ Combined.rows # <<>>
InterfaceNamed == ~NamesRaise(config, "inputs") /\ ~NamesRaise(config, "outputs")
ConfiguredNames(key) ==
    [i \in 1..Len(config["interface"][key]) |-> config["interface"][key][i]["name"]]
ColumnIndex(file, c) == CHOOSE j \in 1..Len(file.fieldnames) : file.fieldnames[j] = c

\* cols is the list of the entries of names that are columns, in the order of names
IsSelection(cols, names, columns) ==
    \E f \in [1..Len(cols) -> 1..Len(names)] :
        /\ \A a \in 1..Len(cols) : cols[a] = names[f[a]]
        /\ \A a \in 1..Len(cols) : \A b \in 1..Len(cols) : a < b => f[a] < f[b]
        /\ \A k \in 1..Len(names) :
              (names[k] \in SeqToSet(columns)) <=> (\E a \in 1..Len(cols) : f[a] = k)

WarnedAbout(head, names, columns) ==
    \E i \in 1..Len(report) :
        /\ report[i][1] = head
        /\ SeqToSet(report[i][2]) = SeqToSet(names) \ SeqToSet(columns)

\* C16: a configured input or output name that is not a column of the
\* combined file does not make split_validation_csv fail: whatever the set
\* of missing names, the call returns, warns about them, and the two files
\* are written with exactly the configured names that are columns of the
\* file, in configured order, after the time column.
C16_MissingNamesOnlyWarn ==
    (splitResult # "none" /\ CombinedHasRows /\ InterfaceNamed) =>
        /\ SplitReturned
        /\ WrittenInputs.fieldnames[1] = "time"
        /\ WrittenOutputs.fieldnames[1] = "time"
        /\ IsSelection(Tail(WrittenInputs.fieldnames), ConfiguredNames("inputs"),
                       Combined.fieldnames)
        /\ IsSelection(Tail(WrittenOutputs.fieldnames), ConfiguredNames("outputs"),
                       Combined.fieldnames)
        /\ \A i \in 1..Len(report) :
              report[i][1] \in {"Warning: Missing input columns: ",
                                "Warning: Missing output columns: "}
        /\ (SeqToSet(ConfiguredNames("inputs")) \ SeqToSet(Combined.fieldnames) # {}) =>
              WarnedAbout("Warning: Missing input columns: ", ConfiguredNames("inputs"),
                          Combined.fieldnames)
        /\ (SeqToSet(ConfiguredNames("outputs")) \ SeqToSet(Combined.fieldnames) # {}) =>
              WarnedAbout("Warning: Missing output columns: ", ConfiguredNames("outputs"),
                          Combined.fieldnames)

C16_Witness ==
    /\ SplitReturned
    /\ Len(report) = 2
    /\ WrittenInputs.fieldnames = <<"time", "u">>
    /\ WrittenOutputs.fieldnames = <<"time", "y">>
    /\ Len(ConfiguredNames("inputs")) = 2
    /\ Len(ConfiguredNames("outputs")) = 2

\* written holds the time column and then only resolved columns, and one
\* line per data line of the combined file, in order, with the value the
\* combined file has in each column (blank for a column it does not have)
ReproducesRows(written, names) ==
    /\ written.fieldnames[1] = "time"
    /\ \A j \in 2..Len(written.fieldnames) :
          written.fieldnames[j] \in SeqToSet(names) \cap SeqToSet(Combined.fieldnames)
    /\ Len(written.rows) = Len(Combined.rows)
    /\ \A i \in 1..Len(written.rows) :
          /\ Len(written.rows[i]) = Len(written.fieldnames)
          /\ \A j \in 1..Len(written.fieldnames) :
                written.rows[i][j] =
                    IF written.fieldnames[j] \in SeqToSet(Combined.fieldnames)
                    THEN Combined.rows[i][ColumnIndex(Combined, written.fieldnames[j])]
                    ELSE ""

\* C17: each of the two files written has time as its first column followed
\* only by the resolved input (output) columns, and exactly one row per
\* data row of the combined file, in the same order, with the same values
\* in those columns.
C17_RowsReproduced ==
    SplitReturned =>
        /\ ReproducesRows(WrittenInputs, ConfiguredNames("inputs"))
        /\ ReproducesRows(WrittenOutputs, ConfiguredNames("outputs"))

C17_Witness ==
    /\ SplitReturned
    /\ Combined.fieldnames = <<"y", "time", "u">>
    /\ Len(Combined.rows) = 2
    /\ Combined.rows[1] = <<"1", "1", "2">>
    /\ Combined.rows[2] = <<"2", "2", "1">>
    /\ WrittenInputs.fieldnames = <<"time", "u">>
    /\ WrittenOutputs.fieldnames = <<"time", "y">>

ExactColumns ==
    SeqToSet(Combined.fieldnames) =
        {"time"} \cup SeqToSet(ConfiguredNames("inputs"))
                 \cup SeqToSet(ConfiguredNames("outputs"))

\* C18: when the columns of the combined file are exactly time and the
\* configured input and output names, row i of test_inputs.csv joined with
\* row i of expected_outputs.csv gives, for every i, exactly the values of
\* row i of the combined file.
C18_RoundTrip ==
    (SplitReturned /\ ExactColumns) =>
        /\ Len(WrittenInputs.rows) = Len(Combined.rows)
        /\ Len(WrittenOutputs.rows) = Len(Combined.rows)
        /\ \A i \in 1..Len(Combined.rows) :
              LET joined == DictReader(WrittenInputs)[i] @@ DictReader(WrittenOutputs)[i]
              IN /\ DOMAIN joined = SeqToSet(Combined.fieldnames)
                 /\ DictReader(WrittenInputs)[i]["time"] = DictReader(WrittenOutputs)[i]["time"]
                 /\ \A j \in 1..Len(Combined.fieldnames) :
                       joined[Combined.fieldnames[j]] = Combined.rows[i][j]

C18_Witness ==
    /\ SplitReturned
    /\ ExactColumns
    /\ Combined.fieldnames = <<"y", "time", "u">>
    /\ Combined.rows = << <<"1", "2", "1">>, <<"2", "1", "1">> >>

\* C19: split_validation_csv ends fatally exactly when the combined file is
\* absent or has no data row; for every other file and every configuration
\* load_config accepts it returns, having written both files.
C19_FatalOnlyAbsentOrEmpty ==
    splitResult # "none" =>
        /\ splitResult # "returned" <=> ~CombinedHasRows
        /\ SplitReturned =>
              /\ Has(inputTestData, "test_inputs.csv")
              /\ Has(inputTestData, "expected_outputs.csv")

(***************************************************************************)
(* tests/validate_fmu_docker.py: the validation run inside the container.  *)
(*                                                                         *)
(* A float is NaN or an exact multiple of 1e-7, held as a number of units; *)
(* an error percentage is NaN or an exact fraction num/den.  Cells of the  *)
(* CSV files are strings, converted by float().                            *)
(***************************************************************************)
MaxTestRows == 11
ShortRows == 2

NaN == [nan |-> TRUE, v |-> 0]
Num(units) == [nan |-> FALSE, v |-> units]
F(x) == Num(x * 10000000)
Abs(n) == IF n < 0 THEN -n ELSE n
Min(a, b) == IF a < b THEN a ELSE b

RECURSIVE Gcd(_, _)
Gcd(a, b) == IF b = 0 THEN a ELSE Gcd(b, a % b)

PctNaN == [nan |-> TRUE, num |-> 0, den |-> 1]
Pct(n, d) == [nan |-> FALSE, num |-> n, den |-> d]

\* float(text) for the cell texts of the test data
DecimalText ==
    <<"0.0", "1.0", "2.0", "3.0", "4.0", "5.0", "6.0", "7.0", "8.0", "9.0", "10.0",
      "11.0", "12.0">>
FloatRaises(text) ==
    text \notin SeqToSet(DecimalText) \cup {"80.0", "nan", "0.02", "0.03", "0.020005"}
Float(text) ==
    IF text = "nan" THEN NaN
    ELSE IF text = "80.0" THEN F(80)
    ELSE IF text = "0.02" THEN Num(200000)
    ELSE IF text = "0.03" THEN Num(300000)
    ELSE IF text = "0.020005" THEN Num(200050)
    ELSE F((CHOOSE i \in 1..Len(DecimalText) : DecimalText[i] = text) - 1)

\* abs(actual) < 1e-6
Epsilon == 10

\* mutant: an expected value of zero always gives an error of zero
ErrorPctZeroExpectedPasses(actual, expected) ==
    IF expected.nan THEN PctNaN
    ELSE IF expected.v # 0
    THEN IF actual.nan THEN PctNaN
         ELSE LET diff == Abs(actual.v - expected.v)
                  g == Gcd(diff, Abs(expected.v))
              IN Pct((diff \div g) * 100, Abs(expected.v) \div g)
    ELSE Pct(0, 1)

\* if expected != 0: error_pct = abs((actual - expected) / expected) * 100
\* else: error_pct = 0 if abs(actual) < 1e-6 else 100
ErrorPct(actual, expected) ==
    IF expected.nan THEN PctNaN
    ELSE IF expected.v # 0
    THEN IF actual.nan THEN PctNaN
         ELSE LET diff == Abs(actual.v - expected.v)
                  g == Gcd(diff, Abs(expected.v))
              IN Pct((diff \div g) * 100, Abs(expected.v) \div g)
    ELSE IF ~actual.nan /\ Abs(actual.v) < Epsilon THEN Pct(0, 1) ELSE Pct(100, 1)

\* error_pct <= tolerance_pct and error_pct > tolerance_pct: both are False
\* for a NaN
PctLeq(p, tol) == ~p.nan /\ p.num <= tol * p.den
PctGt(p, tol) == ~p.nan /\ p.num > tol * p.den

\* status = "PASS" if error_pct <= tolerance_pct else "FAIL"
CheckStatus(error_pct, tol) == IF PctLeq(error_pct, tol) THEN "PASS" ELSE "FAIL"

\* if error_pct > tolerance_pct: failures.append(...)
IsFailure(error_pct, tol) == PctGt(error_pct, tol)

\* config.get('validation', {}).get('tolerance_percent', 5.0)
DefaultTolerance == 5
TolerancePct(cfg) == Get(Get(cfg, "validation", EmptyDict), "tolerance_percent", DefaultTolerance)

\* f"{x:.2f}" and f"{x:.1f}": the value rounded to hundredths, to tenths
Fmt2(x) == IF x.nan THEN NaN ELSE Num(((x.v + 50000) \div 100000) * 100000)
Fmt1(p) == IF p.nan THEN PctNaN ELSE Pct((p.num * 10 + p.den \div 2) \div p.den, 10)

\* one call on the FMU2Slave instance inst while row is being evaluated
Call(op, inst, row, var, value) ==
    [op |-> op, inst |-> inst, row |-> row, var |-> var, value |-> value]
NoArg == Num(0)

\* fmu.instantiate(); fmu.setupExperiment(startTime=0.0);
\* fmu.enterInitializationMode(); fmu.exitInitializationMode()
FmuSetup(inst, row) ==
    << Call("instantiate", inst, row, "", NoArg),
       Call("setupExperiment", inst, row, "startTime", F(0)),
       Call("enterInitializationMode", inst, row, "", NoArg),
       Call("exitInitializationMode", inst, row, "", NoArg) >>

\* for input_name, input_spec in input_map.items(): if input_name in test_row:
\*     value = float(test_row[input_name]); if input_name in vrs: fmu.setReal(...)
InputsOf(cfg) == cfg["interface"]["inputs"]
OutputsOf(cfg) == cfg["interface"]["outputs"]
GivenInputs(cfg, test_row) ==
    SelectSeq(InputsOf(cfg), LAMBDA inp : Has(test_row, inp["name"]))

\* vrs[input_name]: the alias of an input is not consulted
InputVariable(inp) == inp["name"]

SetInputs(cfg, vrs, test_row, row) ==
    LET set == SelectSeq(GivenInputs(cfg, test_row), LAMBDA inp : InputVariable(inp) \in vrs)
    IN [i \in 1..Len(set) |->
          Call("setReal", "validation_test", row, InputVariable(set[i]),
               Float(test_row[set[i]["name"]]))]

\* fmu_var = output_spec.get('fmu_variable', output_name)
OutputVariable(out) == Get(out, "fmu_variable", out["name"])

\* the outputs that enter actual_outputs: if fmu_var in vrs
ReadableOutputs(cfg, vrs) == SelectSeq(OutputsOf(cfg), LAMBDA out : OutputVariable(out) \in vrs)

ReadOutputs(cfg, vrs, row, actual) ==
    LET read == ReadableOutputs(cfg, vrs)
    IN [i \in 1..Len(read) |->
          Call("getReal", "validation_test", row, OutputVariable(read[i]),
               actual[read[i]["name"]])]

\* if i < len(expected_outputs): for output_name in actual_outputs:
\*     if output_name in expected_row
ComparedOutputs(cfg, vrs, expected_outputs, row) ==
    IF row <= Len(expected_outputs)
    THEN SelectSeq(ReadableOutputs(cfg, vrs),
                   LAMBDA out : Has(expected_outputs[row], out["name"]))
    ELSE <<>>

\* the first compared output whose expected cell float() rejects, 0 if none
FirstBadExpected(compared, expected_row) ==
    LET bad == {i \in 1..Len(compared) : FloatRaises(expected_row[compared[i]["name"]])}
    IN IF bad = {} THEN 0 ELSE CHOOSE i \in bad : \A j \in bad : i <= j

\* one printed check: the status line and whether it was appended to failures
Check(row, time, name, actual, expected, tol) ==
    [row |-> row, time |-> time, output |-> name, actual |-> actual,
     expected |-> expected, error_pct |-> ErrorPct(actual, expected),
     status |-> CheckStatus(ErrorPct(actual, expected), tol),
     recorded |-> IsFailure(ErrorPct(actual, expected), tol)]

\* failures.append({'time', 'output', 'actual', 'expected', 'error_pct'})
Failure(c) ==
    [time |-> c.time, output |-> c.output, actual |-> c.actual,
     expected |-> c.expected, error_pct |-> c.error_pct]
RecordedOf(cs) ==
    LET rec == SelectSeq(cs, LAMBDA c : c.recorded)
    IN [i \in 1..Len(rec) |-> Failure(rec[i])]

\* print(f"  - Time {fail['time']}s: {fail['output']} = {fail['actual']:.2f}
\*          (expected {fail['expected']:.2f}, {fail['error_pct']:.1f}% error)")
FailLine(fail) ==
    <<"  - Time ", fail.time, fail.output, Fmt2(fail.actual), Fmt2(fail.expected),
      Fmt1(fail.error_pct)>>

\* for fail in failures[:10]
PrintLimit == 10
PrintedFailures(fs) == SubSeq(fs, 1, Min(PrintLimit, Len(fs)))

\* mutant: the verdict ignores the failures
VerdictAlwaysTrue(expected_outputs, fs) == "True"

\* if expected_outputs: if failures: return False else: return True
\* else: return True
Verdict(expected_outputs, fs) ==
    IF expected_outputs # <<>> /\ fs # <<>> THEN "False" ELSE "True"

Summary(expected_outputs, fs, tol) ==
    IF expected_outputs # <<>>
    THEN IF fs # <<>>
         THEN << <<"VALIDATION FAILED">>,
                 <<"Failures: ", Len(fs), "/", Len(expected_outputs)>>,
                 <<"Failed checks:">> >>
              \o [i \in 1..Len(PrintedFailures(fs)) |-> FailLine(PrintedFailures(fs)[i])]
         ELSE << <<"VALIDATION PASSED">>,
                 <<"All ", Len(expected_outputs), " test cases within ", tol,
                   "% tolerance">> >>
    ELSE << <<"SIMULATION COMPLETED">>,
            <<"(No expected outputs provided for validation)">> >>

TestInputs(data) == data["test_inputs.csv"]
\* load_csv(expected_csv) if expected_csv.exists() else []
ExpectedOutputs(data) == Get(data, "expected_outputs.csv", <<>>)

\* print(f"  {status} {output_name}: {actual:.2f} (expected: {expected:.2f},
\*          error: {error_pct:.1f}%)")
StatusLine(c) == <<"  ", c.status, c.output, Fmt2(c.actual), Fmt2(c.expected), Fmt1(c.error_pct)>>

\* an exception leaves validate_fmu; __main__ catches it
ValidationRaises ==
    /\ eReturn' = "raised"
    /\ epc' = "returned"

\* validate_fmu up to the loop: the input_csv check, the FMU instance, the
\* test data, the tolerance and the I/O mapping
VStart ==
    /\ epc = "start"
    /\ IF ~Has(eData, "test_inputs.csv")
       THEN /\ eReport' = << <<"No test_inputs.csv - skipping validation">> >>
            /\ eReturn' = "True"
            /\ epc' = "returned"
            /\ UNCHANGED <<fmuLog, eRow>>
       ELSE /\ fmuLog' = FmuSetup("validation_test", 0)
            /\ IF NamesRaise(eConfig, "inputs") \/ NamesRaise(eConfig, "outputs")
               THEN /\ ValidationRaises
                    /\ eReport' = << <<"FMU VALIDATION TEST (Docker)">> >>
                    /\ UNCHANGED eRow
               ELSE /\ eReport' = << <<"FMU VALIDATION TEST (Docker)">>,
                                     <<"Test scenarios: ", Len(TestInputs(eData))>>,
                                     <<"Tolerance: ", TolerancePct(eConfig)>> >>
                    /\ eRow' = 1
                    /\ epc' = "loop"
                    /\ UNCHANGED eReturn
    /\ UNCHANGED <<eConfig, eData, eModel, eTime, checks, failures, eExit>>
    /\ UNCHANGED <<genVars, mainVars, ctlVars, splitVars>>

\* one iteration of for i, test_row in enumerate(test_inputs)
VRow ==
    /\ epc = "loop"
    /\ eRow <= Len(TestInputs(eData))
    /\ LET test_row == TestInputs(eData)[eRow]
           expected_outputs == ExpectedOutputs(eData)
           tol == TolerancePct(eConfig)
           read == ReadableOutputs(eConfig, eModel.vrs)
       IN IF ~Has(test_row, "time")
          THEN /\ ValidationRaises
               /\ UNCHANGED <<fmuLog, checks, failures, eReport, eRow>>
          ELSE \E actual \in [{read[i]["name"] : i \in 1..Len(read)} -> eModel.range] :
                 LET time == Float(test_row["time"])
                     compared == ComparedOutputs(eConfig, eModel.vrs, expected_outputs, eRow)
                     bad == IF compared = <<>> THEN 0
                            ELSE FirstBadExpected(compared, expected_outputs[eRow])
                     done == IF bad = 0 THEN compared ELSE SubSeq(compared, 1, bad - 1)
                     new == [i \in 1..Len(done) |->
                               Check(eRow, time, done[i]["name"], actual[done[i]["name"]],
                                     Float(expected_outputs[eRow][done[i]["name"]]), tol)]
                 IN /\ fmuLog' = fmuLog
                                 \o SetInputs(eConfig, eModel.vrs, test_row, eRow)
                                 \o << Call("doStep", "validation_test", eRow,
                                            "currentCommunicationPoint", time) >>
                                 \o ReadOutputs(eConfig, eModel.vrs, eRow, actual)
                    /\ checks' = checks \o new
                    /\ failures' = failures \o RecordedOf(new)
                    /\ eReport' = eReport
                                  \o (IF eRow <= Len(expected_outputs)
                                      THEN << <<"[", eRow, "/", Len(TestInputs(eData)), "] Time=",
                                                time>> >>
                                      ELSE <<>>)
                                  \o [i \in 1..Len(new) |-> StatusLine(new[i])]
                    /\ IF bad # 0
                       THEN ValidationRaises /\ UNCHANGED eRow
                       ELSE eRow' = eRow + 1 /\ UNCHANGED <<epc, eReturn>>
    /\ UNCHANGED <<eConfig, eData, eModel, eTime, eExit>>
    /\ UNCHANGED <<genVars, mainVars, ctlVars, splitVars>>

\* after the loop: fmu.terminate(); fmu.freeInstance(); the summary; return
VFinish ==
    /\ epc = "loop"
    /\ eRow > Len(TestInputs(eData))
    /\ fmuLog' = fmuLog \o << Call("terminate", "validation_test", 0, "", NoArg),
                              Call("freeInstance", "validation_test", 0, "", NoArg) >>
    /\ eReport' = eReport \o Summary(ExpectedOutputs(eData), failures, TolerancePct(eConfig))
    /\ eReturn' = Verdict(ExpectedOutputs(eData), failures)
    /\ epc' = "returned"
    /\ UNCHANGED <<eConfig, eData, eModel, eRow, eTime, checks, failures, eExit>>
    /\ UNCHANGED <<genVars, mainVars, ctlVars, splitVars>>

\* __main__: passed = validate_fmu(config, fmu_path); sys.exit
VExit ==
    /\ epc = "returned"
    /\ IF eReturn = "raised"
       THEN /\ eReport' = Append(eReport, <<"ERROR during validation: ">>)
            /\ eExit' = 1
       ELSE IF eReturn = "False"
       THEN /\ eReport' = Append(eReport,
                                 <<"ERROR: Validation failed - FMU will not be delivered!">>)
            /\ eExit' = 1
       ELSE /\ eReport' = Append(eReport, <<"SUCCESS: FMU validated and ready for delivery!">>)
            /\ eExit' = 0
    /\ epc' = "exited"
    /\ UNCHANGED <<eConfig, eData, eModel, eRow, eTime, fmuLog, checks, failures, eReturn>>
    /\ UNCHANGED <<genVars, mainVars, ctlVars, splitVars>>

(***************************************************************************)
(* The runs of the validation: configurations with and without aliases and *)
(* a tolerance, model descriptions, test data and the values the FMU       *)
(* returns from getReal.                                                   *)
(***************************************************************************)
ValInputs == { << [name |-> "flow"] >>, << [name |-> "flow", fmu_variable |-> "feeder1_flow"] >> }
ValOutputs == { << [name |-> "power"] >>, << [name |-> "power", fmu_variable |-> "out_MW"] >> }
ValSections ==
    { [csv_file |-> "validation.csv"], [tolerance_percent |-> 1], [tolerance_percent |-> 99] }
ValConfigs ==
    { [project |-> [name |-> "Boiler"], modelica |-> [model_class |-> "Plant.Boiler"],
       files |-> [main |-> "model/Main.mo"], fmu |-> EmptyDict]
        @@ Opt(hasI, "interface", [inputs |-> i, outputs |-> o])
        @@ Opt(hasV, "validation", v) :
        hasI \in BOOLEAN, i \in ValInputs, o \in ValOutputs,
        hasV \in BOOLEAN, v \in ValSections }

RangeNear == {F(80), F(84), F(90), NaN}
RangeZero == {Num(0), Num(5), F(1), NaN}
RangeFail == {F(90)}
ValModels ==
    { [vrs |-> vs, range |-> r] :
        vs \in { {"flow", "power"}, {"feeder1_flow", "out_MW"},
                 {"flow", "feeder1_flow", "power", "out_MW"} },
        r \in {RangeNear, RangeZero, RangeFail} }

InputRows(n, withFlow) ==
    [i \in 1..n |-> ("time" :> DecimalText[i]) @@ Opt(withFlow, "flow", "5.0")]
ExpectedRows(n, cell) ==
    [i \in 1..n |-> ("time" :> DecimalText[i]) @@ ("power" :> cell)]
ExpectedFiles(n) ==
    {EmptyDict}
    \cup { "expected_outputs.csv" :> ExpectedRows(m, cell) :
             m \in 0..n, cell \in {"80.0", "0.0", "nan"} }
ValData ==
    { EmptyDict, "expected_outputs.csv" :> ExpectedRows(1, "80.0") }
    \cup { ("test_inputs.csv" :> InputRows(n, withFlow)) @@ e :
             n \in 0..ShortRows, withFlow \in BOOLEAN, e \in ExpectedFiles(ShortRows) }
    \cup { ("test_inputs.csv" :> InputRows(MaxTestRows, TRUE))
             @@ ("expected_outputs.csv" :> ExpectedRows(MaxTestRows, "80.0")),
           ("test_inputs.csv" :> << [flow |-> "5.0"] >>),
           ("test_inputs.csv" :> InputRows(1, TRUE))
             @@ ("expected_outputs.csv" :> << [time |-> "0.0"] >>),
           ("test_inputs.csv" :> InputRows(1, TRUE))
             @@ ("expected_outputs.csv" :> ExpectedRows(1, "")) }

ExpectedCells(data) ==
    { ExpectedOutputs(data)[i]["power"] :
        i \in {j \in 1..Len(ExpectedOutputs(data)) : Has(ExpectedOutputs(data)[j], "power")} }

\* the sub-epsilon values are only compared with an expected zero, and the
\* long run is made with an FMU that returns one value
ValRuns ==
    { r \in [config : ValConfigs, data : ValData, model : ValModels] :
        /\ r.model.range = RangeZero => ExpectedCells(r.data) \subseteq {"0.0"}
        /\ (Has(r.data, "test_inputs.csv") /\ Len(TestInputs(r.data)) > ShortRows)
              => r.model.range = RangeFail }

InitVal ==
    /\ \E r \in ValRuns : eConfig = r.config /\ eData = r.data /\ eModel = r.model
    /\ epc = "start"
    /\ eRow = 0
    /\ eTime = 0
    /\ fmuLog = <<>>
    /\ checks = <<>>
    /\ failures = <<>>
    /\ eReport = <<>>
    /\ eReturn = "none"
    /\ eExit = -1
    /\ splitResult = "none"
    /\ CtlIdle
    /\ config = eConfig
    /\ inputTestData = EmptyDict
    /\ active = [exists |-> FALSE, tree |-> EmptyDict]
    /\ output = EmptyDict
    /\ bpc = "idle"
    /\ exitStatus = -1
    /\ report = <<>>
    /\ ran = <<>>
    /\ backend = NotInvoked
    /\ buildDir = GeneratedScript :> StaleScript
    /\ envState = "env1"
    /\ genResult = "none"
    /\ genLog = {}

NextVal == VStart \/ VRow \/ VFinish \/ VExit
SpecVal == InitVal /\ [][NextVal]_vars

(***************************************************************************)
(* input/_active/test_data/test_script.py: the stand-alone validation      *)
(* script.  A call on an instance carries the tuple of variable names and  *)
(* the tuple of values it was given.                                       *)
(***************************************************************************)
\* TOLERANCE = 0.5, step_size = 0.01 and 1e-5 in units of 1e-7
Tolerance == 5000000
StepSize == 100000
TimeEpsilon == 100

\* f'validator_{i}'
Validator(i) == <<"validator_", i>>

\* [v['name'] for v in config['interface'][key]]
ScriptNames(cfg, key) == Names(cfg, key)

\* {k: float(v) for k, v in row.items()}
ParseRaises(rows) ==
    \E i \in 1..Len(rows) : \E k \in DOMAIN rows[i] : FloatRaises(rows[i][k])
ParsedRow(row) == [k \in DOMAIN row |-> Float(row[k])]

\* target_time = row.get('Time', 1.0); if target_time == 0: target_time = 1.0
TargetTime(row) ==
    LET t == Get(row, "Time", F(1))
    IN IF ~t.nan /\ t.v = 0 THEN F(1) ELSE t

\* mutant: one more step is taken after the target time has been reached
RECURSIVE StepTimesOvershoot(_, _)
StepTimesOvershoot(current_time, target_time) ==
    IF ~target_time.nan /\ current_time < target_time.v - TimeEpsilon + StepSize
    THEN <<current_time>> \o StepTimesOvershoot(current_time + StepSize, target_time)
    ELSE <<>>

\* the values of current_time at the doStep calls of
\* while current_time < target_time - 1e-5: ...; current_time += step_size
RECURSIVE StepTimes(_, _)
StepTimes(current_time, target_time) ==
    IF ~target_time.nan /\ current_time < target_time.v - TimeEpsilon
    THEN <<current_time>> \o StepTimes(current_time + StepSize, target_time)
    ELSE <<>>

\* mutant: the parameter is written after the initialization has been left
RowSetupOverrideLate(inst, row, override) ==
    << Call("instantiate", inst, row, <<>>, <<>>),
       Call("setupExperiment", inst, row, <<"startTime">>, <<F(0)>>),
       Call("enterInitializationMode", inst, row, <<>>, <<>>),
       Call("exitInitializationMode", inst, row, <<>>, <<>>) >>
    \o override

\* fmu.instantiate(); fmu.setupExperiment(startTime=0.0);
\* if k_ref is not None and 'k_factor' in row: fmu.setReal([k_ref], [row['k_factor']])
\* fmu.enterInitializationMode(); fmu.exitInitializationMode()
RowSetup(inst, row, override) ==
    << Call("instantiate", inst, row, <<>>, <<>>),
       Call("setupExperiment", inst, row, <<"startTime">>, <<F(0)>>) >>
    \o override
    \o << Call("enterInitializationMode", inst, row, <<>>, <<>>),
          Call("exitInitializationMode", inst, row, <<>>, <<>>) >>

Override(inst, row, vrs, data_row) ==
    IF "k_factor" \in vrs /\ Has(data_row, "k_factor")
    THEN << Call("setReal", inst, row, <<"k_factor">>, <<data_row["k_factor"]>>) >>
    ELSE <<>>

\* if status is not None and status != 0: print(f"  Warning: ...")
StepWarns(status) == status \notin {"None", "0"}

\* mutant: the stepping loop is left at the first warning
StepsTakenUntilWarning(times, status) ==
    IF StepWarns(status) /\ times # <<>> THEN <<times[1]>> ELSE times

\* the warning does not leave the loop: every step of the row is made
StepsTaken(times, status) == times

\* mutant: a failed row leaves its instance alive
RowTeardownOnPass(inst, row, row_failed) ==
    IF row_failed THEN <<>>
    ELSE << Call("terminate", inst, row, <<>>, <<>>),
            Call("freeInstance", inst, row, <<>>, <<>>) >>

\* fmu.terminate(); fmu.freeInstance(), after the if row_failed / else
RowTeardown(inst, row, row_failed) ==
    << Call("terminate", inst, row, <<>>, <<>>),
       Call("freeInstance", inst, row, <<>>, <<>>) >>

\* diff = abs(val - ref_val); if diff > TOLERANCE
DiffExceeds(val, ref_val) ==
    ~val.nan /\ ~ref_val.nan /\ Abs(val.v - ref_val.v) > Tolerance

ScriptCheck(row, name, val, ref_val) ==
    [row |-> row, output |-> name, actual |-> val, expected |-> ref_val,
     status |-> IF DiffExceeds(val, ref_val) THEN "FAIL" ELSE "PASS"]

\* print(f"  FAIL: {name} FMU={val:.2f} CSV={ref_val:.2f} (Diff={diff:.2f})")
FailedChecks(cs) == SelectSeq(cs, LAMBDA c : c.status = "FAIL")
ScriptFailLine(c) ==
    <<"  FAIL: ", c.output, Fmt2(c.actual), Fmt2(c.expected),
      Fmt2(Num(Abs(c.actual.v - c.expected.v)))>>

\* data: the rows of test_data/validation.csv, every cell converted
ScriptData ==
    [i \in 1..Len(eData["validation.csv"]) |-> ParsedRow(eData["validation.csv"][i])]

\* main up to the loop: load_config, the file checks, the CSV rows and the
\* value references
SStart ==
    /\ epc = "start"
    /\ IF \/ NamesRaise(eConfig, "inputs") \/ NamesRaise(eConfig, "outputs")
          \/ ~Has(eData, "validation.csv")
       THEN /\ eExit' = 1
            /\ epc' = "exited"
            /\ eReport' = IF NamesRaise(eConfig, "inputs") \/ NamesRaise(eConfig, "outputs")
                          THEN << <<"Traceback">> >>
                          ELSE << <<"Error: CSV needed at: ", "test_data/validation.csv">> >>
            /\ UNCHANGED eRow
       ELSE IF ParseRaises(eData["validation.csv"])
       THEN /\ eExit' = 1
            /\ epc' = "exited"
            /\ eReport' = << <<"Traceback">> >>
            /\ UNCHANGED eRow
       ELSE IF ~(SeqToSet(ScriptNames(eConfig, "inputs"))
                   \cup SeqToSet(ScriptNames(eConfig, "outputs")) \subseteq eModel.vrs)
       THEN /\ eExit' = 1
            /\ epc' = "exited"
            /\ eReport' = << <<"Error: Could not find one of the YAML inputs/outputs in the FMU variables.">> >>
            /\ UNCHANGED eRow
       ELSE /\ eRow' = 1
            /\ epc' = "loop"
            /\ eReport' = << <<"--- Validation Script (Robust Mode) ---">> >>
            /\ UNCHANGED eExit
    /\ UNCHANGED <<eConfig, eData, eModel, eTime, fmuLog, checks, failures, eReturn>>
    /\ UNCHANGED <<genVars, mainVars, ctlVars, splitVars>>

\* one iteration of for i, row in enumerate(data)
SRow ==
    /\ epc = "loop"
    /\ eRow <= Len(ScriptData)
    /\ LET row == ScriptData[eRow]
           inputs == ScriptNames(eConfig, "inputs")
           outputs == ScriptNames(eConfig, "outputs")
           inst == Validator(eRow - 1)
           setup == RowSetup(inst, eRow, Override(inst, eRow, eModel.vrs, row))
           times == StepsTaken(StepTimes(0, TargetTime(row)), eModel.status)
           head == << <<"Test Case ", eRow, ": Simulating ">> >>
           warnings == IF StepWarns(eModel.status)
                       THEN [k \in 1..Len(times) |->
                               <<"  Warning: fmu.doStep returned status ", eModel.status,
                                 times[k]>>]
                       ELSE <<>>
           steps == [k \in 1..Len(times) |->
                       Call("doStep", inst, eRow, <<"currentCommunicationPoint">>,
                            <<Num(times[k])>>)]
       IN IF ~(SeqToSet(inputs) \subseteq DOMAIN row)
          THEN /\ fmuLog' = fmuLog \o setup
               /\ eExit' = 1
               /\ epc' = "exited"
               /\ eReport' = eReport \o head \o << <<"Traceback">> >>
               /\ UNCHANGED <<checks, failures, eRow, eTime>>
          ELSE \E res \in [1..Len(outputs) -> eModel.range] :
                 LET read == << Call("getReal", inst, eRow, outputs,
                                     [k \in 1..Len(outputs) |-> res[k]]) >>
                     common == fmuLog \o setup
                               \o << Call("setReal", inst, eRow, inputs,
                                          [k \in 1..Len(inputs) |-> row[inputs[k]]]) >>
                               \o steps \o read
                 IN /\ eTime' = Len(times) * StepSize
                    /\ IF ~(SeqToSet(outputs) \subseteq DOMAIN row)
                       THEN /\ fmuLog' = common
                            /\ eExit' = 1
                            /\ epc' = "exited"
                            /\ eReport' = eReport \o head \o warnings \o << <<"Traceback">> >>
                            /\ UNCHANGED <<checks, failures, eRow>>
                       ELSE LET new == [k \in 1..Len(outputs) |->
                                           ScriptCheck(eRow, outputs[k], res[k], row[outputs[k]])]
                                row_failed == \E k \in 1..Len(new) : new[k].status = "FAIL"
                            IN /\ fmuLog' = common \o RowTeardown(inst, eRow, row_failed)
                               /\ checks' = checks \o new
                               /\ failures' = IF row_failed THEN Append(failures, eRow)
                                              ELSE failures
                               /\ eReport' = eReport \o head \o warnings
                                     \o (IF row_failed
                                         THEN [k \in 1..Len(FailedChecks(new)) |->
                                                 ScriptFailLine(FailedChecks(new)[k])]
                                         ELSE << <<"  PASS">> >>)
                               /\ eRow' = eRow + 1
                               /\ UNCHANGED <<epc, eExit>>
    /\ UNCHANGED <<eConfig, eData, eModel, eReturn>>
    /\ UNCHANGED <<genVars, mainVars, ctlVars, splitVars>>

\* after the loop: the summary and the exit status
SFinish ==
    /\ epc = "loop"
    /\ eRow > Len(ScriptData)
    /\ IF failures = <<>>
       THEN /\ eReport' = Append(eReport, <<"SUCCESS: All ", Len(ScriptData), " tests passed.">>)
            /\ eExit' = 0
       ELSE /\ eReport' = Append(eReport, <<"FAILURE: ", Len(failures), "/", Len(ScriptData),
                                            " tests failed.">>)
            /\ eExit' = 1
    /\ epc' = "exited"
    /\ UNCHANGED <<eConfig, eData, eModel, eRow, eTime, fmuLog, checks, failures, eReturn>>
    /\ UNCHANGED <<genVars, mainVars, ctlVars, splitVars>>

(***************************************************************************)
(* The runs of the script: a configuration, the columns and rows of        *)
(* test_data/validation.csv, the variables of the FMU, the values it       *)
(* returns from getReal and the status it returns from doStep.             *)
(***************************************************************************)
ScriptConfigs == {c \in ValConfigs : ~Has(c, "validation")}
ScriptModels ==
    { [vrs |-> vs, range |-> {F(80), Num(805000000), F(81), NaN}, status |-> st] :
        vs \in { {"flow", "power"}, {"flow", "power", "k_factor"}, {"flow"} },
        st \in {"None", "0", "1"} }
ScriptRow(hasTime, t, hasK) ==
    ("flow" :> "5.0") @@ ("power" :> "80.0") @@ Opt(hasTime, "Time", t)
      @@ Opt(hasK, "k_factor", "2.0")
ScriptFiles ==
    { [i \in 1..n |-> ScriptRow(TRUE, ts[i], hasK)] :
        n \in 0..ShortRows, ts \in [1..ShortRows -> {"0.02", "0.03"}],
        hasK \in BOOLEAN }
    \cup { << ScriptRow(FALSE, "", TRUE) >>, << ScriptRow(TRUE, "0.0", FALSE) >>,
           << ScriptRow(TRUE, "0.020005", FALSE) >>,
           << [flow |-> "5.0", power |-> "", Time |-> "0.02"] >>,
           << [power |-> "80.0", Time |-> "0.02"] >>,
           << [flow |-> "5.0", Time |-> "0.02"] >>,
           << [flow |-> "5.0", power |-> "80.0", time |-> "0.02"] >> }
ScriptRuns ==
    [config : ScriptConfigs,
     data : {EmptyDict} \cup {"validation.csv" :> f : f \in ScriptFiles},
     model : ScriptModels]

InitScript ==
    /\ \E r \in ScriptRuns : eConfig = r.config /\ eData = r.data /\ eModel = r.model
    /\ epc = "start"
    /\ eRow = 0
    /\ eTime = 0
    /\ fmuLog = <<>>
    /\ checks = <<>>
    /\ failures = <<>>
    /\ eReport = <<>>
    /\ eReturn = "none"
    /\ eExit = -1
    /\ splitResult = "none"
    /\ CtlIdle
    /\ config = eConfig
    /\ inputTestData = EmptyDict
    /\ active = [exists |-> FALSE, tree |-> EmptyDict]
    /\ output = EmptyDict
    /\ bpc = "idle"
    /\ exitStatus = -1
    /\ report = <<>>
    /\ ran = <<>>
    /\ backend = NotInvoked
    /\ buildDir = GeneratedScript :> StaleScript
    /\ envState = "env1"
    /\ genResult = "none"
    /\ genLog = {}

NextScript == SStart \/ SRow \/ SFinish
SpecScript == InitScript /\ [][NextScript]_vars

(***************************************************************************)
(* Claims about the validation run.                                        *)
(***************************************************************************)
ValidationRan == epc \in {"loop", "returned", "exited"} /\ Has(eData, "test_inputs.csv")
AtTolerance(p, tol) == ~p.nan /\ p.num = tol * p.den

\* C21: a check whose error percentage equals tolerance_percent passes and is
\* not recorded, a check whose error percentage is greater fails and is
\* recorded, and the printed status of every check agrees with its presence in
\* the failure list.
C21_StatusAgreesWithRecord ==
    \A i \in 1..Len(checks) :
        /\ AtTolerance(checks[i].error_pct, TolerancePct(eConfig))
              => checks[i].status = "PASS" /\ ~checks[i].recorded
        /\ PctGt(checks[i].error_pct, TolerancePct(eConfig))
              => checks[i].status = "FAIL" /\ checks[i].recorded
        /\ (checks[i].status = "FAIL") <=> checks[i].recorded

Whole(x) == ~x.nan /\ x.v % 10000000 = 0
Units(x) == x.v \div 10000000

\* C22: for expected # 0 the error is |actual - expected| / |expected| * 100;
\* for expected = 0 it is 0 when |actual| < 1e-6 and 100 otherwise, so that
\* expected 0 with actual 0 passes and expected 0 with actual 1 fails under
\* every tolerance; no error percentage has a zero denominator.
C22_ErrorFormula ==
    \A i \in 1..Len(checks) :
        LET c == checks[i]
            e == c.error_pct
        IN /\ ~e.nan => e.den > 0
           /\ (Whole(c.actual) /\ Whole(c.expected) /\ c.expected.v # 0)
                 => /\ ~e.nan
                    /\ e.num * Abs(Units(c.expected))
                         = Abs(Units(c.actual) - Units(c.expected)) * 100 * e.den
           /\ (~c.expected.nan /\ c.expected.v = 0)
                 => /\ ~e.nan
                    /\ IF ~c.actual.nan /\ -10 < c.actual.v /\ c.actual.v < 10
                       THEN e.num = 0
                       ELSE e.num = 100 * e.den
           /\ (c.expected = F(0) /\ c.actual = F(0)) => c.status = "PASS" /\ ~c.recorded
           /\ (c.expected = F(0) /\ c.actual = F(1)) => c.status = "FAIL" /\ c.recorded

C22_Witness ==
    /\ TolerancePct(eConfig) = 99
    /\ \E i, j \in 1..Len(checks) :
          /\ checks[i].expected = F(0) /\ checks[i].actual = F(0) /\ checks[i].status = "PASS"
          /\ checks[j].expected = F(0) /\ checks[j].actual = F(1) /\ checks[j].status = "FAIL"

Exceeding == {i \in 1..Len(checks) : PctGt(checks[i].error_pct, TolerancePct(eConfig))}

\* C23: every check that exceeds the tolerance is recorded with the row's
\* time, the output name, the actual value, the expected value and the error
\* percentage; with expected-output data and a recorded failure validate_fmu
\* returns False and the process exits non-zero; expected 80, actual 90,
\* tolerance 5 is an error of 12.5 and a recorded FAIL.
C23_FailuresRecorded ==
    /\ Len(failures) = Cardinality(Exceeding)
    /\ \A i \in Exceeding :
          \E k \in 1..Len(failures) :
              /\ failures[k].time = Float(TestInputs(eData)[checks[i].row]["time"])
              /\ failures[k].output = checks[i].output
              /\ failures[k].actual = checks[i].actual
              /\ failures[k].expected = checks[i].expected
              /\ failures[k].error_pct = checks[i].error_pct
    /\ (epc \in {"returned", "exited"} /\ eReturn # "raised"
          /\ ExpectedOutputs(eData) # <<>> /\ failures # <<>>) => eReturn = "False"
    /\ (epc = "exited" /\ ExpectedOutputs(eData) # <<>> /\ failures # <<>>) => eExit = 1
    /\ \A i \in 1..Len(checks) :
          (checks[i].expected = F(80) /\ checks[i].actual = F(90) /\ TolerancePct(eConfig) = 5)
             => /\ checks[i].error_pct.num * 2 = 25 * checks[i].error_pct.den
                /\ checks[i].status = "FAIL"
                /\ i \in Exceeding

C23_Witness ==
    /\ epc = "exited"
    /\ eReturn = "False"
    /\ eExit = 1
    /\ TolerancePct(eConfig) = 5
    /\ \E k \in 1..Len(failures) :
          /\ failures[k].actual = F(90)
          /\ failures[k].expected = F(80)
          /\ failures[k].output = "power"
          /\ failures[k].time = F(0)

NoExpectedData == Has(eData, "test_inputs.csv") /\ ExpectedOutputs(eData) = <<>>
Reported(line) == \E i \in 1..Len(eReport) : eReport[i] = line

\* C24: a run with no expected-output data hands its caller an outcome that
\* differs from the one of a passed validation, and the entry point does not
\* report the FMU as validated after such a run.
C24_NoExpectedDistinct ==
    (NoExpectedData /\ epc \in {"returned", "exited"} /\ eReturn # "raised")
       => /\ eReturn # "True"
          /\ ~Reported(<<"SUCCESS: FMU validated and ready for delivery!">>)

\* C25: when validate_fmu returns False, every recorded failure appears in the
\* report with its time, variable, actual, expected and error percentage.
C25_AllFailuresReported ==
    (epc \in {"returned", "exited"} /\ eReturn = "False")
       => \A k \in 1..Len(failures) : Reported(FailLine(failures[k]))

Steps == {k \in 1..Len(fmuLog) : fmuLog[k].op = "doStep"}

\* C26: no simulation instance executes steps for two different test rows.
C26_InstancePerRow ==
    \A j, k \in Steps : fmuLog[j].inst = fmuLog[k].inst => fmuLog[j].row = fmuLog[k].row

AliasedInputs(test_row) ==
    {i \in 1..Len(InputsOf(eConfig)) :
        /\ Has(InputsOf(eConfig)[i], "fmu_variable")
        /\ InputsOf(eConfig)[i]["fmu_variable"] \in eModel.vrs
        /\ Has(test_row, InputsOf(eConfig)[i]["name"])}
AliasOfOutput(name) ==
    {OutputsOf(eConfig)[i]["fmu_variable"] :
        i \in {j \in 1..Len(OutputsOf(eConfig)) :
                 /\ OutputsOf(eConfig)[j]["name"] = name
                 /\ Has(OutputsOf(eConfig)[j], "fmu_variable")}}
OutputsReadFromAlias ==
    \A i \in 1..Len(checks) :
        \A alias \in AliasOfOutput(checks[i].output) :
            \E m \in 1..Len(fmuLog) :
                /\ fmuLog[m].op = "getReal"
                /\ fmuLog[m].row = checks[i].row
                /\ fmuLog[m].var = alias
                /\ fmuLog[m].value = checks[i].actual

\* C27: before each step the value a test row gives for an input that declares
\* an fmu_variable alias has been written to the model variable the alias
\* names, and the compared value of an output that declares an alias was read
\* from the model variable the alias names.
C27_AliasesUsed ==
    /\ \A k \in Steps :
          \A i \in AliasedInputs(TestInputs(eData)[fmuLog[k].row]) :
              \E m \in 1..(k - 1) :
                  /\ fmuLog[m].op = "setReal"
                  /\ fmuLog[m].row = fmuLog[k].row
                  /\ fmuLog[m].var = InputsOf(eConfig)[i]["fmu_variable"]
                  /\ fmuLog[m].value
                        = Float(TestInputs(eData)[fmuLog[k].row][InputsOf(eConfig)[i]["name"]])
    /\ OutputsReadFromAlias

(***************************************************************************)
(* Claims about the sequencing of build --all.                             *)
(***************************************************************************)
ProjectInProgress ==
    tpc \in {"stage_check", "stage_rmtree", "stage_copy", "run_build", "wait_build", "rename"}
EarlierSettled ==
    \A i \in 1..Len(Avail) :
        (Avail[i] # current /\ Avail[i] \notin SeqToSet(queue)) => Avail[i] \in DOMAIN results
OneAtATime ==
    BatchRunning =>
        /\ (tpc = "wait_build" /\ tpc' # "wait_build") => bpc \in {"done", "failed"}
        /\ (current' # current /\ tpc # "exited") => (tpc = "loop" /\ bpc = "idle")
        /\ (bpc' # bpc /\ bpc' # "idle") => tpc \in {"run_build", "wait_build"}
        /\ (backend' # backend \/ active' # active \/ output' # output) => ProjectInProgress

\* C28: in build --all the build process runs only while twinctl waits for
\* it, the next project is taken up only after the staging, build and rename
\* of the current one have finished or failed and its result is recorded, and
\* the workspace, the backend and the output change only for the one project
\* in progress.
C28_StrictSequence ==
    /\ [](BatchRunning =>
            /\ bpc # "idle" => tpc = "wait_build"
            /\ ProjectInProgress => (current \notin DOMAIN results /\ EarlierSettled))
    /\ [][OneAtATime]_vars

C28_Witness ==
    /\ cmd.all
    /\ tpc = "stage_check"
    /\ Len(Avail) = 2
    /\ current = Avail[2]
    /\ results = (Avail[1] :> "PASS")
    /\ backend.invoked
    /\ bpc = "idle"

\* C29: a call of generate_build_script leaves the file system unchanged.
C29_NoFileSystemChange == [][buildDir' = buildDir]_vars

(***************************************************************************)
(* Claims about the stand-alone validation script.                         *)
(***************************************************************************)
RowCalls(r) == SelectSeq(fmuLog, LAMBDA c : c.row = r)
StepCount(r) == Len(SelectSeq(fmuLog, LAMBDA c : c.row = r /\ c.op = "doStep"))
RowOverrides(r) == "k_factor" \in eModel.vrs /\ Has(ScriptData[r], "k_factor")
RowPattern(r) ==
    <<"instantiate", "setupExperiment">>
    \o (IF RowOverrides(r) THEN <<"setReal">> ELSE <<>>)
    \o <<"enterInitializationMode", "exitInitializationMode", "setReal">>
    \o [k \in 1..StepCount(r) |-> "doStep"]
    \o <<"getReal", "terminate", "freeInstance">>
ExitIndex(r) == IF RowOverrides(r) THEN 5 ELSE 4
RowInOrder(r) ==
    LET calls == RowCalls(r)
    IN /\ Len(calls) >= ExitIndex(r)
       /\ Len(calls) <= Len(RowPattern(r))
       /\ \A k \in 1..Len(calls) :
             /\ calls[k].op = RowPattern(r)[k]
             /\ calls[k].inst = Validator(r - 1)
       /\ calls[2].value = <<F(0)>>
       /\ RowOverrides(r) => /\ calls[3].var = <<"k_factor">>
                             /\ calls[3].value = <<ScriptData[r]["k_factor"]>>
       /\ \A k \in 1..Len(calls) :
             (calls[k].op = "setReal" /\ calls[k].var = <<"k_factor">>) => k < ExitIndex(r)
       /\ Len(calls) > ExitIndex(r) =>
             calls[ExitIndex(r) + 1].var = ScriptNames(eConfig, "inputs")
       /\ \A k \in 1..Len(calls) :
             calls[k].op = "doStep" =>
                calls[k].value = <<Num((k - ExitIndex(r) - 2) * StepSize)>>
       /\ \A k \in 1..Len(calls) :
             calls[k].op = "getReal" => calls[k].var = ScriptNames(eConfig, "outputs")

\* C30: for every row the script began, the calls on the row's instance are
\* instantiate, setupExperiment with start time 0, the k_factor override if
\* the row and the FMU have one, enterInitializationMode,
\* exitInitializationMode, one setReal of the inputs, the doStep calls from
\* time 0 in steps of 0.01 and one getReal of all outputs after the last
\* step; k_factor is never written after exitInitializationMode.
C30_RowOperationOrder ==
    fmuLog # <<>> =>
        /\ \A k \in 1..Len(fmuLog) : fmuLog[k].row \in 1..Len(ScriptData)
        /\ \A r \in 1..Len(ScriptData) : RowCalls(r) # <<>> => RowInOrder(r)
        /\ \A j, k \in 1..Len(fmuLog) : j < k => fmuLog[j].row <= fmuLog[k].row

C30_Witness ==
    /\ epc = "exited"
    /\ fmuLog # <<>>
    /\ Len(ScriptData) = 2
    /\ RowOverrides(2)
    /\ StepCount(1) = 2
    /\ StepCount(2) = 3
    /\ Len(RowCalls(2)) = Len(RowPattern(2))

RowCompleted(r) == \E i \in 1..Len(checks) : checks[i].row = r
Live(k) ==
    {fmuLog[j].inst : j \in {i \in 1..k : fmuLog[i].op = "instantiate"}}
    \ {fmuLog[j].inst : j \in {i \in 1..k : fmuLog[i].op = "freeInstance"}}

\* C31: for every row whose evaluation completed, passed or failed, terminate
\* and then freeInstance were called on the row's instance after its outputs
\* were read and before any call of a later row; at no point of the run is
\* more than one instance live.
C31_TeardownEveryRow ==
    fmuLog # <<>> =>
        /\ \A r \in 1..Len(ScriptData) :
              RowCompleted(r) =>
                 LET calls == RowCalls(r)
                     n == Len(calls)
                 IN /\ n >= 3
                    /\ calls[n - 2].op = "getReal"
                    /\ calls[n - 1].op = "terminate"
                    /\ calls[n].op = "freeInstance"
                    /\ calls[n - 1].inst = Validator(r - 1)
                    /\ calls[n].inst = Validator(r - 1)
        /\ \A k \in 1..(Len(fmuLog) - 1) : fmuLog[k].row <= fmuLog[k + 1].row
        /\ \A k \in 1..Len(fmuLog) : Cardinality(Live(k)) <= 1

C31_Witness ==
    /\ epc = "exited"
    /\ fmuLog # <<>>
    /\ Len(ScriptData) = 2
    /\ failures = <<1>>
    /\ RowCompleted(2)
    /\ fmuLog[Len(fmuLog)] = Call("freeInstance", Validator(1), 2, <<>>, <<>>)

\* the rows whose stepping loop was left: the outputs were read
RowStepped(r) == \E k \in 1..Len(fmuLog) : fmuLog[k].row = r /\ fmuLog[k].op = "getReal"
StepPoints(r) ==
    LET steps == SelectSeq(fmuLog, LAMBDA c : c.row = r /\ c.op = "doStep")
    IN [k \in 1..Len(steps) |-> steps[k].value[1].v]

\* C32: the stepping loop of every row ends: its doStep calls are at 0, h,
\* 2h, ... with h = 0.01, the number n of steps is the least one with
\* n * h >= target - 1e-5, and no step is made at or beyond that point.
C32_SteppingStops ==
    fmuLog # <<>> =>
        \A r \in 1..Len(ScriptData) :
            RowStepped(r) =>
                LET points == StepPoints(r)
                    n == Len(points)
                    target == TargetTime(ScriptData[r]).v
                IN /\ \A k \in 1..n : points[k] = (k - 1) * StepSize
                   /\ n * StepSize >= target - TimeEpsilon
                   /\ n > 0 => (n - 1) * StepSize < target - TimeEpsilon

C32_Witness ==
    /\ epc = "exited"
    /\ fmuLog # <<>>
    /\ Len(ScriptData) = 1
    /\ TargetTime(ScriptData[1]) = Num(200050)
    /\ RowStepped(1)
    /\ StepPoints(1) = <<0, StepSize>>

\* C33: for a reference file whose header has the column time, a row with
\* time = T > 0 is stepped from 0 until the elapsed time reaches T - 1e-5 and
\* no further.
C33_TargetIsTimeColumn ==
    fmuLog # <<>> =>
        \A r \in 1..Len(ScriptData) :
            (RowStepped(r) /\ Has(ScriptData[r], "time") /\ ScriptData[r]["time"].v > 0) =>
                LET n == Len(StepPoints(r))
                    T == ScriptData[r]["time"].v
                IN /\ n * StepSize >= T - TimeEpsilon
                   /\ n > 0 => (n - 1) * StepSize < T - TimeEpsilon

WarningLines ==
    SelectSeq(eReport, LAMBDA line : line[1] = "  Warning: fmu.doStep returned status ")
DoStepCalls == SelectSeq(fmuLog, LAMBDA c : c.op = "doStep")
RowsComplete == \A r \in 1..Len(ScriptData) : RowCompleted(r)

\* C34: with an FMU whose doStep returns a status other than None and 0,
\* every step is reported by one warning and nothing else changes: each row
\* is stepped up to its target time, its outputs are read and evaluated, the
\* rows after it are processed, and the exit status depends on the failed
\* comparisons alone.
C34_StepStatusOnlyWarns ==
    (fmuLog # <<>> /\ StepWarns(eModel.status)) =>
        /\ Len(WarningLines) = Len(DoStepCalls)
        /\ \A k \in 1..Len(WarningLines) : WarningLines[k][3] = DoStepCalls[k].value[1].v
        /\ \A r \in 1..Len(ScriptData) :
              RowStepped(r) =>
                 Len(StepPoints(r)) * StepSize >= TargetTime(ScriptData[r]).v - TimeEpsilon
        /\ \A r \in 1..Len(ScriptData) :
              (RowStepped(r) /\ SeqToSet(ScriptNames(eConfig, "outputs")) \subseteq DOMAIN ScriptData[r])
                 => RowCompleted(r)
        /\ \A r \in 1..Len(ScriptData) : (r < eRow) => RowCompleted(r)
        /\ (epc = "exited" /\ RowsComplete) => (eExit = 0 <=> failures = <<>>)

C34_Witness ==
    /\ epc = "exited"
    /\ fmuLog # <<>>
    /\ eModel.status = "1"
    /\ Len(ScriptData) = 2
    /\ RowsComplete
    /\ Len(WarningLines) = 5
    /\ eExit = 0

\* C35: every comparison of the script passes exactly when the relative error
\* percentage of the value does not exceed the configured tolerance
\* percentage (5.0 when validation.tolerance_percent is absent).
C35_RelativeTolerance ==
    \A i \in 1..Len(checks) :
        checks[i].status = "PASS"
           <=> PctLeq(ErrorPct(checks[i].actual, checks[i].expected), TolerancePct(eConfig))

\* C36: when expected-output data exists and validate_fmu returns True, every
\* row i of the test inputs was compared with row i of the expected outputs
\* for every configured output.
C36_PassMeansAllChecked ==
    (epc \in {"returned", "exited"} /\ eReturn = "True"
        /\ Has(eData, "test_inputs.csv") /\ ExpectedOutputs(eData) # <<>>)
       => \A r \in 1..Len(TestInputs(eData)) :
             \A o \in 1..Len(OutputsOf(eConfig)) :
                 /\ r <= Len(ExpectedOutputs(eData))
                 /\ Has(ExpectedOutputs(eData)[r], OutputsOf(eConfig)[o]["name"])
                 /\ \E i \in 1..Len(checks) :
                       /\ checks[i].row = r
                       /\ checks[i].output = OutputsOf(eConfig)[o]["name"]
                       /\ checks[i].expected
                            = Float(ExpectedOutputs(eData)[r][OutputsOf(eConfig)[o]["name"]])

\* C37: after load_config and validate_files have accepted the staged
\* configuration, generate_build_script returns: every external-library entry
\* has the name and the path the generator reads.
C37_AcceptedConfigRenders ==
    (ValidateRan /\ ran[1].ok /\ ran[2].ok) =>
        /\ \A i \in 1..Len(Get(config, "external_libraries", <<>>)) :
              /\ Has(config["external_libraries"][i], "name")
              /\ Has(config["external_libraries"][i], "path")
        /\ Len(ran) >= 3 => (ran[3].ok /\ genResult = "returned")

=============================================================================
